---- MODULE Spec2Model ----
(***************************************************************************)
(* Frame-by-frame linking of detections (src/exercise1.py) and tracking    *)
(* by a candidate graph and an integer linear program (src/exercise3.py).  *)
(*                                                                         *)
(* A frame is a dense label image; the model keeps it as the tuple of its  *)
(* pixel values.  Every operation of the source on a frame (min, max,      *)
(* np.unique, the boolean masks `frame == label`) is invariant under a     *)
(* permutation of the pixels, so the specifications that enumerate whole   *)
(* sequences of frames draw each frame with its pixels in non-decreasing   *)
(* order; the specification of _assert_relabeled draws every pixel tuple.  *)
(***************************************************************************)
EXTENDS Integers, Sequences, FiniteSets, TLC

VARIABLES
    linker,         \* which subclass of FrameByFrameLinker `self` is
    threshold,      \* self.threshold
    detections,     \* the sequence of frames passed to link / relabel_detections
    i,              \* loop index of link / relabel_detections
    links,          \* list of linking dictionaries (result of link, input of relabel)
    pc,             \* position of the running call
    error,          \* the exception raised (type "none" while none is)
    n_cost,         \* number of linking_cost_function calls made by link
    n_matched,      \* number of _link_two_frames calls that returned in link
    cost_matrix,    \* argument of nearest_neighbor / _link_two_frames
    li,             \* a linking dictionary (result of _link_two_frames)
    ids,            \* result of nearest_neighbor: <<ids_from, ids_to>>
    x,              \* argument of _assert_relabeled
    out,            \* relabel_detections: list of output frames
    n_tracks,       \* relabel_detections: number of track ids allocated
    lookup_tables,  \* relabel_detections: per frame, label -> track id
    graph,          \* a networkx DiGraph: candidate graph or pruned graph
    node_luts,      \* build_graph: per frame, label -> node id
    args,           \* remaining arguments of the call (max_distance, drift, ...)
    solution,       \* the assignment of the ILP variables returned by the solver
    recolored,      \* recolor_detections / extract_divisions: the call's result
    ilp,            \* the cvxpy problem built by graph2ilp_flow / _nodiv / _div
    new_graph       \* solution2graph: the pruned graph

vars == <<linker, threshold, detections, i, links, pc, error, n_cost, n_matched,
          cost_matrix, li, ids, x, out, n_tracks, lookup_tables,
          graph, node_luts, args, solution, recolored, ilp, new_graph>>

\* the variables of the calls of src/exercise1.py's linkers, and those of
\* src/exercise3.py's graph functions
linkVars == <<linker, threshold, i, links, n_cost, n_matched, cost_matrix, li,
              ids, x, out, n_tracks, lookup_tables>>
graphVars == <<graph, node_luts, args, solution, recolored, ilp, new_graph>>

----------------------------------------------------------------------------
(* Bounds of the model *)

\* number of pixels of a frame
NPix == 3
\* largest label value a pixel may hold
MaxLabel == 2
\* largest number of frames of a sequence
MaxFrames == 3
\* largest number of rows / columns of a cost matrix given directly
MaxDim == 2
\* largest entry of a cost matrix given directly
MaxCost == 2
\* largest length of an id list of a linking dictionary given directly
MaxListLen == 2

(* Program constants *)

\* sys.float_info.max, the default threshold: larger than every cost
FloatMax == 1000
\* birth_cost_factor and death_cost_factor defaults (1.05), in hundredths
BirthCostFactor100 == 105
DeathCostFactor100 == 105

----------------------------------------------------------------------------
(* Generic helpers: numpy / python primitives *)

Min2(a, b) == IF a <= b THEN a ELSE b
Max2(a, b) == IF a >= b THEN a ELSE b

Range(s) == {s[k] : k \in DOMAIN s}

\* np.arange(a, b) as a tuple
Arange(a, b) == [k \in 1 .. Max2(0, b - a) |-> a + k - 1]

\* arr + 1 on an integer array
PlusOne(s) == [k \in DOMAIN s |-> s[k] + 1]

\* x.min(), x.max(), np.unique(x) of a non-empty array
ArrMin(f) == CHOOSE v \in Range(f) : \A w \in Range(f) : v <= w
ArrMax(f) == CHOOSE v \in Range(f) : \A w \in Range(f) : v >= w
Unique(f) == Range(f)

RECURSIVE Insert(_, _)
Insert(v, s) ==
    IF s = <<>> THEN <<v>>
    ELSE IF v <= Head(s) THEN <<v>> \o s
    ELSE <<Head(s)>> \o Insert(v, Tail(s))

RECURSIVE Sorted(_)
\* python sorted(list)
Sorted(s) == IF s = <<>> THEN <<>> ELSE Insert(Head(s), Sorted(Tail(s)))

\* python list(range(a, b))
PyRange(a, b) == Arange(a, b)

IsSortedSeq(s) == \A k \in 1 .. Len(s) - 1 : s[k] <= s[k + 1]

----------------------------------------------------------------------------
(* Inputs *)

PixelValues == -1 .. MaxLabel
AllFrames == [1 .. NPix -> PixelValues]
Frames == {f \in AllFrames : IsSortedSeq(f)}

Linkers == {"NearestNeighborLinkerEuclidian",
            "NearestNeighborLinkerDriftCorrection",
            "BipartiteMatchingLinker"}

Thresholds == {1, FloatMax}

NoError == [type |-> "none", msg |-> "", frames |-> {}, ids |-> {}]
Err(t, m, fr, idset) == [type |-> t, msg |-> m, frames |-> fr, ids |-> idset]

EmptyMatrix == [shape |-> <<0, 0>>, data |-> <<>>]
NoLinks == [links |-> <<<<>>, <<>>>>, births |-> <<>>, deaths |-> <<>>]

\* nx.DiGraph(): nodes is a dictionary node id -> attributes, edges a list
EmptyGraph == [nodes |-> [k \in {} |-> 0], edges |-> <<>>]
NoArgs == [k \in {} |-> 0]
NoResult == [out |-> <<>>, n_tracks |-> 1, color_lookup_tables |-> <<>>,
             new_frame |-> <<>>, color_lut |-> [k \in {} |-> 0], err |-> NoError]
NoProblem == [n |-> 0, c |-> <<>>, leq |-> <<>>, eq |-> <<>>, flow_edges |-> <<>>]
NoSolution == [x |-> <<>>, optimal |-> FALSE]

\* no graph function of src/exercise3.py has been called
GraphIdle ==
    /\ graph = EmptyGraph
    /\ node_luts = <<>>
    /\ args = NoArgs
    /\ solution = NoSolution
    /\ recolored = NoResult
    /\ ilp = NoProblem
    /\ new_graph = EmptyGraph

----------------------------------------------------------------------------
(* FrameByFrameLinker._assert_relabeled *)

\* slip: the background label is not counted (n = x.max() in both cases)
AssertRelabeled_NoBackground(f) ==
    IF ArrMin(f) < 0
    THEN Err("ValueError", "Negative ID in detections.", {}, {})
    ELSE IF ArrMax(f) # Cardinality(Unique(f))
         THEN Err("ValueError", "Detection IDs are not contiguous.", {}, {})
         ELSE NoError

\* slip: only the sign is checked
AssertRelabeled_SignOnly(f) ==
    IF ArrMin(f) < 0
    THEN Err("ValueError", "Negative ID in detections.", {}, {})
    ELSE NoError

AssertRelabeled(f) ==
    IF ArrMin(f) < 0
    THEN Err("ValueError", "Negative ID in detections.", {}, {})
    ELSE LET n == IF ArrMin(f) = 0 THEN ArrMax(f) + 1 ELSE ArrMax(f)
         IN  IF n # Cardinality(Unique(f))
             THEN Err("ValueError", "Detection IDs are not contiguous.", {}, {})
             ELSE NoError

(* FrameByFrameLinker._assert_links: the first check that fails decides the
   error; `frames` and `ids` are the frame indices and detection ids that the
   message text contains. *)

AssertLinks(l, time, detections0, detections1) ==
    LET ids_from == l.links[1]
        ids_to   == l.links[2]
    IN
    IF Len(ids_from) # Len(ids_to)
    THEN Err("RuntimeError", "Format of links['links'] not correct.", {}, {})
    ELSE IF Sorted(ids_from \o l.deaths)
              # PyRange(1, Cardinality(Unique(detections0)))
    THEN Err("RuntimeError",
             "Some detections in frame {time} are not properly assigned as either linked or death.",
             {time}, {})
    ELSE IF Sorted(ids_to \o l.births)
              # PyRange(1, Cardinality(Unique(detections1)))
    THEN Err("RuntimeError",
             "Some detections in frame {time + 1} are not properly assigned as either linked or birth.",
             {time + 1}, {})
    ELSE IF \E k \in DOMAIN l.births : l.births[k] \in Range(ids_to)
    THEN LET k == CHOOSE k \in DOMAIN l.births :
                    /\ l.births[k] \in Range(ids_to)
                    /\ \A j \in 1 .. k - 1 : l.births[j] \notin Range(ids_to)
         IN  Err("RuntimeError",
                 "Links frame {time+1}: Detection {b} marked as birth, but also linked.",
                 {time + 1}, {l.births[k]})
    ELSE IF \E k \in DOMAIN l.deaths : l.deaths[k] \in Range(ids_from)
    THEN LET k == CHOOSE k \in DOMAIN l.deaths :
                    /\ l.deaths[k] \in Range(ids_from)
                    /\ \A j \in 1 .. k - 1 : l.deaths[j] \notin Range(ids_from)
         IN  Err("RuntimeError",
                 "Links frame {time}: Detection {d} marked as death, but also linked.",
                 {time}, {l.deaths[k]})
    ELSE NoError

----------------------------------------------------------------------------
(* Cost matrices: shape <<m, n>> and the entries, indexed from 0 as in numpy *)

Zeros(m, n) ==
    [shape |-> <<m, n>>, data |-> [rc \in (0 .. m - 1) \X (0 .. n - 1) |-> 0]]

MatSize(cm) == cm.shape[1] * cm.shape[2]
MatEntries(cm) == {cm.data[rc] : rc \in DOMAIN cm.data}
\* cost_matrix.max() of a non-empty matrix
MatMax(cm) == CHOOSE v \in MatEntries(cm) : \A w \in MatEntries(cm) : v >= w

(* linking_cost_function of the three linkers: the same body in each,
   np.zeros((detections0.max(), detections1.max())) *)

\* slip: the detections are counted as len(np.unique(.)) - 1
LinkingCostFunction_CountUnique(self, detections0, detections1) ==
    Zeros(Cardinality(Unique(detections0)) - 1, Cardinality(Unique(detections1)) - 1)

LinkingCostFunction(self, detections0, detections1) ==
    Zeros(ArrMax(detections0), ArrMax(detections1))

----------------------------------------------------------------------------
(* nearest_neighbor: returns <<np.array(ids_from), np.array(ids_to)>> *)

NearestNeighbor(cm) ==
    LET ids_from == <<>>
        ids_to   == <<>>
    IN  <<ids_from, ids_to>>

----------------------------------------------------------------------------
(* _link_two_frames *)

\* the dictionary both implementations build from min(shape): lines 673-689
\* and 866-881
PairUp(cm) ==
    LET min_objs == Min2(cm.shape[1], cm.shape[2])
        ids_from == Arange(0, min_objs)
        ids_to   == Arange(0, min_objs)
        births   == Arange(min_objs, cm.shape[2])
        deaths   == Arange(min_objs, cm.shape[1])
    IN  [links  |-> <<PlusOne(ids_from), PlusOne(ids_to)>>,
         births |-> PlusOne(births),
         deaths |-> PlusOne(deaths)]

\* NearestNeighborLinkerEuclidian._link_two_frames (inherited by
\* NearestNeighborLinkerDriftCorrection)
NNLinkTwoFrames(thr, cm) == [err |-> NoError, val |-> PairUp(cm)]

\* BipartiteMatchingLinker: b, d and no_link, in hundredths
BirthCost100(thr, cm) == BirthCostFactor100 * Min2(thr, MatMax(cm))
DeathCost100(thr, cm) == DeathCostFactor100 * Min2(thr, MatMax(cm))
\* no_link is kept as the pair of its two factors: the product
\* max(cost_matrix.max(), max(b, d)) * 1e9 does not fit the integers of the
\* model checker
NoLinkFactor == 1000000000
NoLink100(thr, cm) ==
    [base |-> Max2(100 * MatMax(cm), Max2(BirthCost100(thr, cm), DeathCost100(thr, cm))),
     factor |-> NoLinkFactor]

\* BipartiteMatchingLinker._link_two_frames: cost_matrix.max() of a
\* zero-size array raises ValueError
BipartiteLinkTwoFrames(thr, cm) ==
    IF MatSize(cm) = 0
    THEN [err |-> Err("ValueError",
                      "zero-size array to reduction operation maximum which has no identity",
                      {}, {}),
          val |-> NoLinks]
    ELSE LET b == BirthCost100(thr, cm)
             d == DeathCost100(thr, cm)
             no_link == NoLink100(thr, cm)
         IN  [err |-> NoError, val |-> PairUp(cm)]

LinkTwoFrames(self, thr, cm) ==
    IF self = "BipartiteMatchingLinker"
    THEN BipartiteLinkTwoFrames(thr, cm)
    ELSE NNLinkTwoFrames(thr, cm)

----------------------------------------------------------------------------
(* FrameByFrameLinker.link(detections), images=None.  One action per loop
   iteration; the call ends in pc = "done" (links returned) or
   pc = "raised" (error holds the exception, i the iteration it left). *)

\* the sequences of at most maxT frames
FrameSeqs(maxT) == UNION {[1 .. T -> Frames] : T \in 0 .. maxT}

\* range(len(images) - 1)
LinkIterations(dets) == Max2(0, Len(dets) - 1)

InitLink ==
    /\ GraphIdle
    /\ linker \in Linkers
    /\ threshold \in Thresholds
    /\ detections \in FrameSeqs(MaxFrames)
    /\ i = 0
    /\ links = <<>>
    /\ pc = "link"
    /\ error = NoError
    /\ n_cost = 0
    /\ n_matched = 0
    /\ cost_matrix = EmptyMatrix
    /\ li = NoLinks
    /\ ids = <<<<>>, <<>>>>
    /\ x = <<>>
    /\ out = <<>>
    /\ n_tracks = 0
    /\ lookup_tables = <<>>

Raise(e) == pc' = "raised" /\ error' = e

LinkIter ==
    /\ UNCHANGED graphVars
    /\ pc = "link"
    /\ i < LinkIterations(detections)
    /\ LET detections0 == detections[i + 1]
           detections1 == detections[i + 2]
           e0 == AssertRelabeled(detections0)
           e1 == AssertRelabeled(detections1)
           cm == LinkingCostFunction(linker, detections0, detections1)
           r  == LinkTwoFrames(linker, threshold, cm)
           el == AssertLinks(r.val, i, detections0, detections1)
       IN
       IF e0.type # "none"
       THEN Raise(e0) /\ UNCHANGED <<i, links, n_cost, n_matched, cost_matrix, li>>
       ELSE IF e1.type # "none"
       THEN Raise(e1) /\ UNCHANGED <<i, links, n_cost, n_matched, cost_matrix, li>>
       ELSE IF r.err.type # "none"
       THEN /\ Raise(r.err)
            /\ n_cost' = n_cost + 1
            /\ cost_matrix' = cm
            /\ UNCHANGED <<i, links, n_matched, li>>
       ELSE IF el.type # "none"
       THEN /\ Raise(el)
            /\ n_cost' = n_cost + 1
            /\ n_matched' = n_matched + 1
            /\ cost_matrix' = cm
            /\ li' = r.val
            /\ UNCHANGED <<i, links>>
       ELSE /\ links' = Append(links, r.val)
            /\ i' = i + 1
            /\ n_cost' = n_cost + 1
            /\ n_matched' = n_matched + 1
            /\ cost_matrix' = cm
            /\ li' = r.val
            /\ UNCHANGED <<pc, error>>
    /\ UNCHANGED <<linker, threshold, detections, ids, x, out, n_tracks, lookup_tables>>

LinkReturn ==
    /\ UNCHANGED graphVars
    /\ pc = "link"
    /\ i >= LinkIterations(detections)
    /\ pc' = "done"
    /\ UNCHANGED <<linker, threshold, detections, i, links, error, n_cost, n_matched,
                   cost_matrix, li, ids, x, out, n_tracks, lookup_tables>>

NextLink == LinkIter \/ LinkReturn

Spec == InitLink /\ [][NextLink]_vars

----------------------------------------------------------------------------
(* The pure functions, each called once on an input drawn from a bounded set *)

(* _assert_relabeled(x) *)

InitAssertRelabeled ==
    /\ GraphIdle
    /\ pc = "call"
    /\ x \in AllFrames
    /\ linker = "NearestNeighborLinkerEuclidian"
    /\ threshold = FloatMax
    /\ detections = <<>>
    /\ i = 0
    /\ links = <<>>
    /\ error = NoError
    /\ n_cost = 0
    /\ n_matched = 0
    /\ cost_matrix = EmptyMatrix
    /\ li = NoLinks
    /\ ids = <<<<>>, <<>>>>
    /\ out = <<>>
    /\ n_tracks = 0
    /\ lookup_tables = <<>>

CallAssertRelabeled ==
    /\ UNCHANGED graphVars
    /\ pc = "call"
    /\ error' = AssertRelabeled(x)
    /\ pc' = IF AssertRelabeled(x).type = "none" THEN "done" ELSE "raised"
    /\ UNCHANGED <<linker, threshold, detections, i, links, n_cost, n_matched,
                   cost_matrix, li, ids, x, out, n_tracks, lookup_tables>>

SpecAssertRelabeled == InitAssertRelabeled /\ [][CallAssertRelabeled]_vars

(* nearest_neighbor(cost_matrix) *)

Matrix(m, n, d) == [shape |-> <<m, n>>, data |-> d]

\* the matrices of at most dim rows and columns with entries 0 .. maxc
CostMatrices(dim, maxc) ==
    UNION {{Matrix(m, n, d) : d \in [(0 .. m - 1) \X (0 .. n - 1) -> 0 .. maxc]} :
           m \in 0 .. dim, n \in 0 .. dim}

\* test_matrix, lines 420-425
test_matrix ==
    Matrix(4, 3,
           [rc \in (0 .. 3) \X (0 .. 2) |->
               IF rc = <<0, 1>> THEN 2
               ELSE IF rc = <<2, 0>> THEN 1
               ELSE IF rc = <<3, 1>> THEN 3
               ELSE 9])

InitNearestNeighbor ==
    /\ GraphIdle
    /\ pc = "call"
    /\ cost_matrix \in CostMatrices(MaxDim, MaxCost) \cup {test_matrix}
    /\ linker = "NearestNeighborLinkerEuclidian"
    /\ threshold = FloatMax
    /\ detections = <<>>
    /\ i = 0
    /\ links = <<>>
    /\ error = NoError
    /\ n_cost = 0
    /\ n_matched = 0
    /\ li = NoLinks
    /\ ids = <<<<>>, <<>>>>
    /\ x = <<>>
    /\ out = <<>>
    /\ n_tracks = 0
    /\ lookup_tables = <<>>

CallNearestNeighbor ==
    /\ UNCHANGED graphVars
    /\ pc = "call"
    /\ ids' = NearestNeighbor(cost_matrix)
    /\ pc' = "done"
    /\ UNCHANGED <<linker, threshold, detections, i, links, error, n_cost, n_matched,
                   cost_matrix, li, x, out, n_tracks, lookup_tables>>

SpecNearestNeighbor == InitNearestNeighbor /\ [][CallNearestNeighbor]_vars

(* self._link_two_frames(cost_matrix) of a linker with self.threshold *)

InitLinkTwoFrames ==
    /\ GraphIdle
    /\ pc = "call"
    /\ linker \in Linkers
    /\ threshold \in Thresholds
    /\ cost_matrix \in CostMatrices(MaxDim, MaxCost)
    /\ detections = <<>>
    /\ i = 0
    /\ links = <<>>
    /\ error = NoError
    /\ n_cost = 0
    /\ n_matched = 0
    /\ li = NoLinks
    /\ ids = <<<<>>, <<>>>>
    /\ x = <<>>
    /\ out = <<>>
    /\ n_tracks = 0
    /\ lookup_tables = <<>>

CallLinkTwoFrames ==
    /\ UNCHANGED graphVars
    /\ pc = "call"
    /\ LET r == LinkTwoFrames(linker, threshold, cost_matrix)
       IN  /\ li' = r.val
           /\ error' = r.err
           /\ pc' = IF r.err.type = "none" THEN "done" ELSE "raised"
    /\ UNCHANGED <<linker, threshold, detections, i, links, n_cost, n_matched,
                   cost_matrix, ids, x, out, n_tracks, lookup_tables>>

SpecLinkTwoFrames == InitLinkTwoFrames /\ [][CallLinkTwoFrames]_vars

(* self._assert_links(links=li, time=i, detections0, detections1), on any
   linking dictionary an implementation of _link_two_frames may return *)

\* the id lists of at most len ids
IdLists(len) == UNION {[1 .. n -> 1 .. MaxLabel] : n \in 0 .. len}

LinkDicts(len) ==
    {[links |-> <<f, t>>, births |-> b, deaths |-> d] :
        f \in IdLists(len), t \in IdLists(len), b \in IdLists(len), d \in IdLists(len)}

ValidFrames == {f \in Frames : AssertRelabeled(f).type = "none"}

InitAssertLinks ==
    /\ GraphIdle
    /\ pc = "call"
    /\ li \in LinkDicts(MaxListLen)
    /\ i \in 0 .. MaxFrames - 2
    /\ detections \in [1 .. 2 -> ValidFrames]
    /\ linker = "NearestNeighborLinkerEuclidian"
    /\ threshold = FloatMax
    /\ links = <<>>
    /\ error = NoError
    /\ n_cost = 0
    /\ n_matched = 0
    /\ cost_matrix = EmptyMatrix
    /\ ids = <<<<>>, <<>>>>
    /\ x = <<>>
    /\ out = <<>>
    /\ n_tracks = 0
    /\ lookup_tables = <<>>

CallAssertLinks ==
    /\ UNCHANGED graphVars
    /\ pc = "call"
    /\ LET e == AssertLinks(li, i, detections[1], detections[2])
       IN  /\ error' = e
           /\ pc' = IF e.type = "none" THEN "done" ELSE "raised"
    /\ UNCHANGED <<linker, threshold, detections, i, links, n_cost, n_matched,
                   cost_matrix, li, ids, x, out, n_tracks, lookup_tables>>

SpecAssertLinks == InitAssertLinks /\ [][CallAssertLinks]_vars

----------------------------------------------------------------------------
(* FrameByFrameLinker.relabel_detections(detections, links).  A lookup table
   (python dict) is a function from labels to track ids.  The call ends in
   pc = "done" (np.stack(out) returned) or pc = "raised". *)

EmptyDict == [k \in {} |-> 0]
DictSet(d, k, v) == [j \in DOMAIN d \cup {k} |-> IF j = k THEN v ELSE d[j]]

\* slip: the value is written to every pixel of the frame
Paint_Everywhere(new_frame, frame, label, v) == [p \in DOMAIN new_frame |-> v]

\* new_frame[frame == label] = v
Paint(new_frame, frame, label, v) ==
    [p \in DOMAIN new_frame |-> IF frame[p] = label THEN v ELSE new_frame[p]]

\* slip: the label of the predecessor is copied instead of its track id
TrackOf_Label(lut, _from) == _from

\* lookup_tables[i][_from]
TrackOf(lut, _from) == lut[_from]

RECURSIVE CopyLinked(_, _, _, _, _, _)
\* for _from, _to in zip(ids_from, ids_to), from position k on; st holds
\* new_frame, lut and the KeyError of a missing lookup
CopyLinked(st, k, ids_from, ids_to, frame, prev_lut) ==
    IF k > Min2(Len(ids_from), Len(ids_to)) \/ st.err.type # "none"
    THEN st
    ELSE IF ids_from[k] \notin DOMAIN prev_lut
    THEN [st EXCEPT !.err = Err("KeyError", "lookup_tables[i][_from]", {}, {ids_from[k]})]
    ELSE CopyLinked(
            [st EXCEPT
                !.new_frame = Paint(st.new_frame, frame, ids_to[k],
                                    TrackOf(prev_lut, ids_from[k])),
                !.lut = DictSet(st.lut, ids_to[k], TrackOf(prev_lut, ids_from[k]))],
            k + 1, ids_from, ids_to, frame, prev_lut)

\* slip: every birth is skipped, no track is started
StartTracks_SkipAll(st, k, births, deaths, frame) == st

RECURSIVE StartTracks_NoSuppress(_, _, _, _, _)
\* slip: a birth starts a track even when it is in the next death list
StartTracks_NoSuppress(st, k, births, deaths, frame) ==
    IF k > Len(births)
    THEN st
    ELSE StartTracks_NoSuppress(
            [st EXCEPT
                !.n_tracks = st.n_tracks + 1,
                !.lut = DictSet(st.lut, births[k], st.n_tracks + 1),
                !.new_frame = Paint(st.new_frame, frame, births[k], st.n_tracks + 1)],
            k + 1, births, deaths, frame)

RECURSIVE StartTracks_NoIncrement(_, _, _, _, _)
\* slip: n_tracks is not incremented, so a birth takes the latest id again
StartTracks_NoIncrement(st, k, births, deaths, frame) ==
    IF k > Len(births)
    THEN st
    ELSE IF births[k] \in Range(deaths)
    THEN StartTracks_NoIncrement(st, k + 1, births, deaths, frame)
    ELSE StartTracks_NoIncrement(
            [st EXCEPT
                !.lut = DictSet(st.lut, births[k], st.n_tracks),
                !.new_frame = Paint(st.new_frame, frame, births[k], st.n_tracks)],
            k + 1, births, deaths, frame)

RECURSIVE StartTracks(_, _, _, _, _)
\* for b in births, from position k on; st holds new_frame, lut, n_tracks
StartTracks(st, k, births, deaths, frame) ==
    IF k > Len(births)
    THEN st
    ELSE IF births[k] \in Range(deaths)
    THEN StartTracks(st, k + 1, births, deaths, frame)
    ELSE StartTracks(
            [st EXCEPT
                !.n_tracks = st.n_tracks + 1,
                !.lut = DictSet(st.lut, births[k], st.n_tracks + 1),
                !.new_frame = Paint(st.new_frame, frame, births[k], st.n_tracks + 1)],
            k + 1, births, deaths, frame)

\* one iteration of the loop over range(len(links)): the state after it
RelabelBody(dets, lks, t, tracks, prev_lut) ==
    LET ids_from == lks[t + 1].links[1]
        ids_to   == lks[t + 1].links[2]
        births   == lks[t + 1].births
        deaths   == IF t + 1 < Len(lks) THEN lks[t + 2].deaths ELSE <<>>
        frame    == dets[t + 2]
        st0 == [new_frame |-> [p \in DOMAIN frame |-> 0],
                lut |-> EmptyDict,
                n_tracks |-> tracks,
                err |-> AssertRelabeled(frame)]
        st1 == CopyLinked(st0, 1, ids_from, ids_to, frame, prev_lut)
    IN  IF st1.err.type # "none"
        THEN st1
        ELSE StartTracks(st1, 1, births, deaths, frame)

RelabelStart ==
    /\ UNCHANGED graphVars
    /\ pc = "relabel"
    /\ IF Len(detections) - 1 # Len(links)
       THEN /\ Raise(Err("AssertionError", "len(detections) - 1 == len(links)", {}, {}))
            /\ UNCHANGED <<out, n_tracks, lookup_tables>>
       ELSE IF AssertRelabeled(detections[1]).type # "none"
       THEN /\ Raise(AssertRelabeled(detections[1]))
            /\ UNCHANGED <<out, n_tracks, lookup_tables>>
       ELSE /\ out' = <<detections[1]>>
            /\ n_tracks' = ArrMax(detections[1])
            /\ lookup_tables' = <<[l \in 1 .. ArrMax(detections[1]) |-> l]>>
            /\ pc' = "relabel_loop"
            /\ UNCHANGED error
    /\ UNCHANGED <<linker, threshold, detections, i, links, n_cost, n_matched,
                   cost_matrix, li, ids, x>>

RelabelIter ==
    /\ UNCHANGED graphVars
    /\ pc = "relabel_loop"
    /\ i < Len(links)
    /\ LET st == RelabelBody(detections, links, i, n_tracks, lookup_tables[i + 1])
       IN  IF st.err.type # "none"
           THEN /\ Raise(st.err)
                /\ UNCHANGED <<i, out, n_tracks, lookup_tables>>
           ELSE /\ out' = Append(out, st.new_frame)
                /\ lookup_tables' = Append(lookup_tables, st.lut)
                /\ n_tracks' = st.n_tracks
                /\ i' = i + 1
                /\ UNCHANGED <<pc, error>>
    /\ UNCHANGED <<linker, threshold, detections, links, n_cost, n_matched,
                   cost_matrix, li, ids, x>>

RelabelReturn ==
    /\ UNCHANGED graphVars
    /\ pc = "relabel_loop"
    /\ i >= Len(links)
    /\ pc' = "done"
    /\ UNCHANGED <<linker, threshold, detections, i, links, error, n_cost, n_matched,
                   cost_matrix, li, ids, x, out, n_tracks, lookup_tables>>

(* Inputs of relabel_detections: one to MaxFrames frames that
   _assert_relabeled accepts and, for each transition, a linking dictionary
   in which every label of frame t is linked or dead and every label of
   frame t+1 is linked or born, exactly once.  The id lists are drawn in
   ascending order of the frame-t id (links) and of the id (births, deaths):
   the loops write disjoint dictionary keys and disjoint pixel masks, so
   their order does not matter. *)

RECURSIVE SetToSeq(_)
SetToSeq(S) ==
    IF S = {} THEN <<>>
    ELSE LET m == CHOOSE v \in S : \A w \in S : v <= w
         IN  <<m>> \o SetToSeq(S \ {m})

Matchings(A, B) ==
    {M \in SUBSET (A \X B) :
        \A p \in M, q \in M : p # q => p[1] # q[1] /\ p[2] # q[2]}

ResultOf(M, A, B) ==
    LET froms == SetToSeq({p[1] : p \in M})
    IN  [links  |-> <<froms,
                      [k \in DOMAIN froms |->
                          (CHOOSE p \in M : p[1] = froms[k])[2]]>>,
         births |-> SetToSeq(B \ {p[2] : p \in M}),
         deaths |-> SetToSeq(A \ {p[1] : p \in M})]

ResultsFor(f0, f1) ==
    {ResultOf(M, Range(f0) \ {0}, Range(f1) \ {0}) :
        M \in Matchings(Range(f0) \ {0}, Range(f1) \ {0})}

AllResults(frames) ==
    UNION {ResultsFor(f0, f1) : f0 \in frames, f1 \in frames}

InitRelabel ==
    /\ GraphIdle
    /\ pc = "relabel"
    /\ detections \in UNION {[1 .. T -> ValidFrames] : T \in 1 .. MaxFrames}
    /\ links \in [1 .. Len(detections) - 1 -> AllResults(ValidFrames)]
    /\ \A t \in DOMAIN links : links[t] \in ResultsFor(detections[t], detections[t + 1])
    /\ i = 0
    /\ linker = "NearestNeighborLinkerEuclidian"
    /\ threshold = FloatMax
    /\ error = NoError
    /\ n_cost = 0
    /\ n_matched = 0
    /\ cost_matrix = EmptyMatrix
    /\ li = NoLinks
    /\ ids = <<<<>>, <<>>>>
    /\ x = <<>>
    /\ out = <<>>
    /\ n_tracks = 0
    /\ lookup_tables = <<>>

NextRelabel == RelabelStart \/ RelabelIter \/ RelabelReturn

SpecRelabel == InitRelabel /\ [][NextRelabel]_vars

----------------------------------------------------------------------------
(* Candidate graph (src/exercise3.py, build_graph).  A frame is an image of
   one row, so the centroid of a region is (0, mean of its column indices);
   the model keeps the mean as the pair sum / n and compares distances after
   clearing the denominators, so that no rounding takes place.  A graph is
   nodes: node id -> attributes, and edges: the list of edges in insertion
   order (the order of graph.edges). *)

\* skimage.segmentation.relabel_sequential(d)[0]: the positive labels are
\* renumbered 1..k in ascending order, 0 stays 0
RelabelSequential(d) ==
    [p \in DOMAIN d |->
        IF d[p] = 0 THEN 0
        ELSE Cardinality({l \in Range(d) : 0 < l /\ l <= d[p]})]

\* skimage.measure.regionprops(frame): the labels of the regions, ascending
RegionLabels(frame) == SetToSeq(Range(frame) \ {0})

RECURSIVE SumSet(_)
SumSet(S) == IF S = {} THEN 0 ELSE LET v == CHOOSE w \in S : TRUE IN v + SumSet(S \ {v})

\* r.centroid of the region of label l: column sum / n (columns are 0-based)
Centroid(frame, l) ==
    LET cols == {p - 1 : p \in {q \in DOMAIN frame : frame[q] = l}}
    IN  [sum |-> SumSet(cols), n |-> Cardinality(cols)]

Abs(v) == IF v < 0 THEN -v ELSE v

\* np.linalg.norm(_c0 - _c1) < max_distance, denominators cleared
DistBelow(c0, c1, max_distance) ==
    Abs(c0.sum * c1.n - c1.sum * c0.n) < max_distance * c0.n * c1.n

\* np.linalg.norm(_c0 + np.array(drift) - _c1) / max_distance, kept exactly:
\* the weight is sqrt(num_sq) / den
EdgeWeight(c0, c1, drift, max_distance) ==
    [num_sq |-> (drift[1] * c0.n * c1.n) * (drift[1] * c0.n * c1.n)
                + (c0.sum * c1.n + drift[2] * c0.n * c1.n - c1.sum * c0.n)
                  * (c0.sum * c1.n + drift[2] * c0.n * c1.n - c1.sum * c0.n),
     den |-> max_distance * c0.n * c1.n]

\* G.add_node(n_v, time=t, detection_id=r.label, weight=weight)
NodeAttrs(t, l, w) == [time |-> t, detection_id |-> l, weight |-> w, has_attrs |-> TRUE]

RECURSIVE BuildNodes(_, _, _)
\* for t, d in enumerate(detections), from frame t (0-based) on; st holds
\* the nodes of G, luts and n_v
BuildNodes(dets, t, st) ==
    IF t >= Len(dets)
    THEN st
    ELSE LET regions == RegionLabels(RelabelSequential(dets[t + 1]))
             lut == [l \in Range(regions) |->
                        st.n_v + (CHOOSE k \in DOMAIN regions : regions[k] = l) - 1]
         IN  BuildNodes(dets, t + 1,
                [nodes |-> [n \in DOMAIN st.nodes \cup {lut[l] : l \in DOMAIN lut} |->
                               IF n \in DOMAIN st.nodes THEN st.nodes[n]
                               ELSE NodeAttrs(t, CHOOSE l \in DOMAIN lut : lut[l] = n, 1)],
                 luts |-> Append(st.luts, lut),
                 n_v |-> st.n_v + Len(regions)])

RECURSIVE BuildEdges(_, _, _, _, _, _, _)
\* the three nested loops of lines 281-301, from (t, a, b) on: t the pair of
\* frames (0-based), a and b the positions of _r0 and _r1 in r0 and r1
BuildEdges(dets, luts, max_distance, drift, t, a, b) ==
    IF t + 1 >= Len(dets)
    THEN <<>>
    ELSE LET f0 == RelabelSequential(dets[t + 1])
             f1 == RelabelSequential(dets[t + 2])
             r0 == RegionLabels(f0)
             r1 == RegionLabels(f1)
         IN  IF a > Len(r0)
             THEN BuildEdges(dets, luts, max_distance, drift, t + 1, 1, 1)
             ELSE IF b > Len(r1)
             THEN BuildEdges(dets, luts, max_distance, drift, t, a + 1, 1)
             ELSE LET c0 == Centroid(f0, r0[a])
                      c1 == Centroid(f1, r1[b])
                      rest == BuildEdges(dets, luts, max_distance, drift, t, a, b + 1)
                  IN  IF DistBelow(c0, c1, max_distance)
                      THEN <<[u |-> luts[t + 1][r0[a]],
                              v |-> luts[t + 2][r1[b]],
                              weight |-> EdgeWeight(c0, c1, drift, max_distance)]>>
                           \o rest
                      ELSE rest

\* slip: n_e is not incremented, every edge has edge_id 0
BuildGraph_NoCount(dets, max_distance, drift) ==
    LET st == BuildNodes(dets, 0, [nodes |-> EmptyGraph.nodes, luts |-> <<>>, n_v |-> 0])
        es == BuildEdges(dets, st.luts, max_distance, drift, 0, 1, 1)
    IN  [G |-> [nodes |-> st.nodes,
                edges |-> [k \in DOMAIN es |->
                              [u |-> es[k].u, v |-> es[k].v,
                               weight |-> es[k].weight, edge_id |-> 0]]],
         luts |-> st.luts]

\* build_graph(detections, max_distance, drift=drift): G and luts; edge_id
\* is n_e, the number of edges added before
BuildGraph(dets, max_distance, drift) ==
    LET st == BuildNodes(dets, 0, [nodes |-> EmptyGraph.nodes, luts |-> <<>>, n_v |-> 0])
        es == BuildEdges(dets, st.luts, max_distance, drift, 0, 1, 1)
    IN  [G |-> [nodes |-> st.nodes,
                edges |-> [k \in DOMAIN es |->
                              [u |-> es[k].u, v |-> es[k].v,
                               weight |-> es[k].weight, edge_id |-> k - 1]]],
         luts |-> st.luts]

\* largest max_distance and largest component of drift drawn
MaxDistance == 2
MaxDrift == 1

\* dense label images as build_graph takes them: labels need not be contiguous
LabelFrames == [1 .. NPix -> 0 .. MaxLabel]
Drifts == (0 .. MaxDrift) \X ((-MaxDrift) .. MaxDrift)

InitBuildGraph ==
    /\ pc = "build_graph"
    /\ detections \in UNION {[1 .. T -> LabelFrames] : T \in 0 .. MaxFrames}
    /\ args \in [max_distance : 1 .. MaxDistance, drift : Drifts]
    /\ graph = EmptyGraph
    /\ node_luts = <<>>
    /\ solution = NoSolution
    /\ recolored = NoResult
    /\ ilp = NoProblem
    /\ new_graph = EmptyGraph
    /\ i = 0
    /\ links = <<>>
    /\ linker = "NearestNeighborLinkerEuclidian"
    /\ threshold = FloatMax
    /\ error = NoError
    /\ n_cost = 0
    /\ n_matched = 0
    /\ cost_matrix = EmptyMatrix
    /\ li = NoLinks
    /\ ids = <<<<>>, <<>>>>
    /\ x = <<>>
    /\ out = <<>>
    /\ n_tracks = 0
    /\ lookup_tables = <<>>

CallBuildGraph ==
    /\ pc = "build_graph"
    /\ LET r == BuildGraph(detections, args.max_distance, args.drift)
       IN  /\ graph' = r.G
           /\ node_luts' = r.luts
    /\ pc' = "done"
    /\ UNCHANGED <<detections, error, args, solution, recolored, ilp, new_graph>>
    /\ UNCHANGED linkVars

SpecBuildGraph == InitBuildGraph /\ [][CallBuildGraph]_vars

----------------------------------------------------------------------------
(* The three 0/1 programs (src/exercise3.py: graph2ilp_flow, graph2ilp_nodiv,
   graph2ilp_div), the solver and solution2graph.  A problem is the cost
   vector c over the E + V + E_flow columns and the rows of the constraint
   matrices; a row is kept as the function from the columns the code writes
   to the value written, every other entry being the 0 of np.zeros.
   Columns are numbered from 1: edge k (0-based) is column k + 1, node n is
   column E + n + 1, flow edge j (0-based) is column E + V + j + 1.  Costs
   are integers, in units of 1/10000: hyperparameters and weights are kept
   in hundredths. *)

Variants == {"graph2ilp_flow", "graph2ilp_nodiv", "graph2ilp_div"}

\* the hyperparameter dictionaries of the calls of lines 510, 717 and 871
Hyperparams ==
    { [node_factor |-> -100, edge_factor |-> 100],
      [cost_appear |-> 50, cost_disappear |-> 50, node_factor |-> -100,
       edge_factor |-> 100],
      [cost_appear |-> 15, cost_disappear |-> 50, node_offset |-> 0,
       node_factor |-> -100, edge_factor |-> 40] }

\* the keys each builder reads from hyperparams
KeysRead(variant) ==
    IF variant = "graph2ilp_flow" THEN {"edge_factor", "node_offset", "node_factor"}
    ELSE IF variant = "graph2ilp_nodiv" THEN {"edge_factor", "node_factor"}
    ELSE {"cost_appear", "cost_disappear", "edge_factor", "node_factor"}

Isqrt(v) == CHOOSE r \in 0 .. v : r * r <= v /\ v < (r + 1) * (r + 1)
\* an edge weight sqrt(num_sq) / den in hundredths
Weight100(w) == Isqrt(10000 * w.num_sq) \div w.den

\* graph.nodes in insertion order
NodeSeq(g) == SetToSeq(DOMAIN g.nodes)

\* the edges of graph_flow in the order of graph_flow.edges: those out of
\* "appear" first, then those into "death"
FlowEdge(kind, n, w) == [kind |-> kind, node |-> n, weight |-> w]

FlowEdges(variant, g, hp, n_frames) ==
    LET ns == NodeSeq(g)
        first == SelectSeq(ns, LAMBDA n : g.nodes[n].time = 0)
        last  == SelectSeq(ns, LAMBDA n : g.nodes[n].time # 0
                                          /\ g.nodes[n].time = n_frames - 1)
    IN  IF variant = "graph2ilp_flow"
        THEN [k \in DOMAIN first |-> FlowEdge("appear", first[k], 0)]
             \o [k \in DOMAIN last |-> FlowEdge("death", last[k], 0)]
        ELSE IF variant = "graph2ilp_nodiv"
        THEN <<>>
        ELSE [k \in DOMAIN ns |-> FlowEdge("appear", ns[k], 100 * hp.cost_appear)]
             \o [k \in DOMAIN ns |-> FlowEdge("death", ns[k], 100 * hp.cost_disappear)]

\* columns of the edges into and out of node n: graph.in_edges(node) and
\* graph_flow.in_edges(node), graph.out_edges(node) and graph_flow.out_edges(node)
InCols(g, fe, n) ==
    {k \in DOMAIN g.edges : g.edges[k].v = n}
    \cup {Len(g.edges) + Cardinality(DOMAIN g.nodes) + j :
             j \in {k \in DOMAIN fe : fe[k].kind = "appear" /\ fe[k].node = n}}
OutCols(g, fe, n) ==
    {k \in DOMAIN g.edges : g.edges[k].u = n}
    \cup {Len(g.edges) + Cardinality(DOMAIN g.nodes) + j :
             j \in {k \in DOMAIN fe : fe[k].kind = "death" /\ fe[k].node = n}}

\* slip: the row holds the edge to its source only (1 on the edge, -1 on
\* edge[0])
A0Row_SourceOnly(g, k) ==
    [c \in {k, Len(g.edges) + g.edges[k].u + 1} |-> IF c = k THEN 1 ELSE -1]

\* row edge_id of A0: 2 on the edge, -1 on its two endpoints
A0Row(g, k) ==
    [c \in {k, Len(g.edges) + g.edges[k].u + 1, Len(g.edges) + g.edges[k].v + 1} |->
        IF c = k THEN 2 ELSE -1]

\* slip: 1 on the node instead of 2
A1Row_OneOnNode(g, fe, n) ==
    [c \in {Len(g.edges) + n + 1} \cup InCols(g, fe, n) \cup OutCols(g, fe, n) |->
        IF c = Len(g.edges) + n + 1 THEN 1 ELSE -1]

\* row node of A1: 2 on the node, -1 on every incident edge
A1Row(g, fe, n) ==
    [c \in {Len(g.edges) + n + 1} \cup InCols(g, fe, n) \cup OutCols(g, fe, n) |->
        IF c = Len(g.edges) + n + 1 THEN 2 ELSE -1]

\* row node of A2: all zero in graph2ilp_flow; -1 on the incoming and 1 on
\* the outgoing edges in graph2ilp_nodiv; 1 and -1 in graph2ilp_div
A2Row(variant, g, fe, n) ==
    IF variant = "graph2ilp_flow"
    THEN [c \in {} |-> 0]
    ELSE [c \in InCols(g, fe, n) \cup OutCols(g, fe, n) |->
             IF variant = "graph2ilp_nodiv"
             THEN (IF c \in InCols(g, fe, n) THEN -1 ELSE 1)
             ELSE (IF c \in InCols(g, fe, n) THEN 1 ELSE -1)]

\* row node of A3 (graph2ilp_div): all zero
A3Row(g, fe, n) == [c \in {} |-> 0]

\* c = np.concatenate([c_e, c_v, c_e_flow])
CostVector(variant, g, fe, hp) ==
    LET ns == NodeSeq(g)
    IN  [k \in DOMAIN g.edges |-> hp.edge_factor * Weight100(g.edges[k].weight)]
        \o [k \in DOMAIN ns |->
               IF variant = "graph2ilp_flow"
               THEN 100 * (hp.node_offset + hp.node_factor * g.nodes[ns[k]].weight)
               ELSE 100 * (hp.node_factor * g.nodes[ns[k]].weight)]
        \o [k \in DOMAIN fe |->
               IF variant = "graph2ilp_flow" THEN hp.edge_factor * fe[k].weight
               ELSE fe[k].weight]

\* graph2ilp_flow / graph2ilp_nodiv / graph2ilp_div (graph, hyperparams);
\* n_frames is len(detections) of the notebook
Graph2ILP(variant, g, hp, n_frames) ==
    IF ~(KeysRead(variant) \subseteq DOMAIN hp)
    THEN [err |-> Err("KeyError", "hyperparams", {}, {}), val |-> NoProblem]
    ELSE
    LET fe == FlowEdges(variant, g, hp, n_frames)
        ns == NodeSeq(g)
        A0 == [k \in DOMAIN g.edges |-> A0Row(g, k)]
        A1 == [k \in DOMAIN ns |-> A1Row(g, fe, ns[k])]
        A2 == [k \in DOMAIN ns |-> A2Row(variant, g, fe, ns[k])]
        A3 == [k \in DOMAIN ns |-> A3Row(g, fe, ns[k])]
    IN  [err |-> NoError,
         val |-> [n |-> Len(g.edges) + Len(ns) + Len(fe),
                  c |-> CostVector(variant, g, fe, hp),
                  leq |-> IF variant = "graph2ilp_div" THEN A0 \o A1 \o A2 \o A3 ELSE A0,
                  eq  |-> IF variant = "graph2ilp_div" THEN <<>> ELSE A1 \o A2,
                  flow_edges |-> fe]]

(* The solver: branch and bound over the boolean variables.  xs is the
   assignment of the first Len(xs) columns; a branch is cut when a row can
   no longer be satisfied whatever the remaining columns are. *)

RECURSIVE RowBound(_, _, _, _)
\* the least (low) or largest value row . x can take given xs
RowBound(row, cols, xs, low) ==
    IF cols = {} THEN 0
    ELSE LET c == CHOOSE d \in cols : TRUE
             v == IF c <= Len(xs) THEN row[c] * xs[c]
                  ELSE IF low THEN Min2(row[c], 0) ELSE Max2(row[c], 0)
         IN  v + RowBound(row, cols \ {c}, xs, low)

\* slip: the node rows are required to equal 1 (A1 @ x == 1, A2 @ x == 1)
Satisfiable_RhsOne(problem, xs) ==
    /\ \A k \in DOMAIN problem.leq :
          RowBound(problem.leq[k], DOMAIN problem.leq[k], xs, TRUE) <= 0
    /\ \A k \in DOMAIN problem.eq :
          /\ RowBound(problem.eq[k], DOMAIN problem.eq[k], xs, TRUE) <= 1
          /\ RowBound(problem.eq[k], DOMAIN problem.eq[k], xs, FALSE) >= 1

\* constraints = [A0 @ x <= 0, A1 @ x == 0, A2 @ x == 0] (<= 0 throughout in
\* graph2ilp_div), as far as the columns of xs decide them
Satisfiable(problem, xs) ==
    /\ \A k \in DOMAIN problem.leq :
          RowBound(problem.leq[k], DOMAIN problem.leq[k], xs, TRUE) <= 0
    /\ \A k \in DOMAIN problem.eq :
          /\ RowBound(problem.eq[k], DOMAIN problem.eq[k], xs, TRUE) <= 0
          /\ RowBound(problem.eq[k], DOMAIN problem.eq[k], xs, FALSE) >= 0

RECURSIVE Branch(_, _)
Branch(problem, xs) ==
    IF ~Satisfiable(problem, xs) THEN {}
    ELSE IF Len(xs) = problem.n THEN {xs}
    ELSE Branch(problem, Append(xs, 0)) \cup Branch(problem, Append(xs, 1))

\* every assignment that satisfies the constraints
FeasibleSet(problem) == Branch(problem, <<>>)

RECURSIVE Dot(_, _)
\* c.T @ x
Dot(c, xs) == IF c = <<>> THEN 0 ELSE Head(c) * Head(xs) + Dot(Tail(c), Tail(xs))

\* solution2graph(solution, base_graph): the picked nodes with their
\* features, then the picked edges; add_edge creates an endpoint that is
\* not yet a node, without attributes
NoAttrs == [time |-> -1, detection_id |-> -1, weight |-> 0, has_attrs |-> FALSE]

Solution2Graph(xs, base_graph) ==
    LET E == Len(base_graph.edges)
        V == Cardinality(DOMAIN base_graph.nodes)
        picked_nodes == {n \in 0 .. V - 1 : xs[E + n + 1] = 1}
        picked_edges == SelectSeq([k \in 1 .. E |-> k], LAMBDA k : xs[k] = 1)
        ends == {base_graph.edges[picked_edges[k]].u : k \in DOMAIN picked_edges}
                \cup {base_graph.edges[picked_edges[k]].v : k \in DOMAIN picked_edges}
    IN  [nodes |-> [n \in picked_nodes \cup ends |->
                       IF n \in picked_nodes THEN base_graph.nodes[n] ELSE NoAttrs],
         edges |-> [k \in DOMAIN picked_edges |->
                       [u |-> base_graph.edges[picked_edges[k]].u,
                        v |-> base_graph.edges[picked_edges[k]].v]]]

(* Candidate graphs given directly: n_frames frames with up to MaxDetections
   detections each and up to MaxNodes nodes in all, numbered frame by frame
   as build_graph numbers them, and up to MaxEdges edges between detections
   of consecutive frames, in the order build_graph adds them. *)

\* largest number of nodes and of edges of a candidate graph given directly,
\* and largest number of detections of one of its frames
MaxNodes == 4
MaxEdges == 3
MaxDetections == 3

\* weights of the edges of a candidate graph given directly: 0.1
EdgeWeights == {[num_sq |-> 1, den |-> 10]}

RECURSIVE SeqSum(_)
SeqSum(q) == IF q = <<>> THEN 0 ELSE Head(q) + SeqSum(Tail(q))

\* the numbers of detections of the frames
CountSeqs(maxT, maxV) ==
    {cnt \in UNION {[1 .. T -> 0 .. MaxDetections] : T \in 1 .. maxT} :
        SeqSum(cnt) >= 1 /\ SeqSum(cnt) <= maxV}

\* the frame (0-based) of node n, and the nodes numbered before that frame
TimeOf(cnt, n) ==
    CHOOSE t \in 0 .. Len(cnt) - 1 :
        /\ SeqSum(SubSeq(cnt, 1, t)) <= n
        /\ n < SeqSum(SubSeq(cnt, 1, t + 1))
NodesBefore(cnt, t) == SeqSum(SubSeq(cnt, 1, t))

CandidatePairs(cnt) ==
    {p \in (0 .. SeqSum(cnt) - 1) \X (0 .. SeqSum(cnt) - 1) :
        TimeOf(cnt, p[2]) = TimeOf(cnt, p[1]) + 1}

RECURSIVE PairSeq(_)
\* a set of pairs as the list in ascending order of (u, v)
PairSeq(S) ==
    IF S = {} THEN <<>>
    ELSE LET m == CHOOSE p \in S :
                     \A q \in S : p[1] < q[1] \/ (p[1] = q[1] /\ p[2] <= q[2])
         IN  <<m>> \o PairSeq(S \ {m})

CandidateGraph(cnt, S, w) ==
    LET es == PairSeq(S)
    IN  [nodes |-> [n \in 0 .. SeqSum(cnt) - 1 |->
                       NodeAttrs(TimeOf(cnt, n),
                                 n - NodesBefore(cnt, TimeOf(cnt, n)) + 1, 1)],
         edges |-> [k \in DOMAIN es |->
                       [u |-> es[k][1], v |-> es[k][2], weight |-> w,
                        edge_id |-> k - 1]]]

InitILP ==
    /\ pc = "graph2ilp"
    /\ \E cnt \in CountSeqs(MaxFrames, MaxNodes) :
          \E S \in {R \in SUBSET CandidatePairs(cnt) : Cardinality(R) <= MaxEdges} :
             \E w \in EdgeWeights :
                /\ graph = CandidateGraph(cnt, S, w)
                /\ args \in [variant : Variants, hyperparams : Hyperparams,
                             n_frames : {Len(cnt)}]
    /\ node_luts = <<>>
    /\ solution = NoSolution
    /\ recolored = NoResult
    /\ ilp = NoProblem
    /\ new_graph = EmptyGraph
    /\ detections = <<>>
    /\ i = 0
    /\ links = <<>>
    /\ linker = "NearestNeighborLinkerEuclidian"
    /\ threshold = FloatMax
    /\ error = NoError
    /\ n_cost = 0
    /\ n_matched = 0
    /\ cost_matrix = EmptyMatrix
    /\ li = NoLinks
    /\ ids = <<<<>>, <<>>>>
    /\ x = <<>>
    /\ out = <<>>
    /\ n_tracks = 0
    /\ lookup_tables = <<>>

\* ilp = graph2ilp_...(candidate_graph, hyperparams=...)
CallGraph2ILP ==
    /\ pc = "graph2ilp"
    /\ LET r == Graph2ILP(args.variant, graph, args.hyperparams, args.n_frames)
       IN  IF r.err.type # "none"
           THEN Raise(r.err) /\ UNCHANGED ilp
           ELSE ilp' = r.val /\ pc' = "built" /\ UNCHANGED error
    /\ UNCHANGED <<detections, graph, node_luts, args, solution, recolored, new_graph>>
    /\ UNCHANGED linkVars

\* what the solver can return: a feasible assignment, marked optimal when
\* its cost c.T @ x is the least
Solutions(problem) ==
    LET F == FeasibleSet(problem)
        costs == {Dot(problem.c, ys) : ys \in F}
        least == CHOOSE m \in costs : \A v \in costs : m <= v
    IN  {[x |-> xs, optimal |-> Dot(problem.c, xs) = least] : xs \in F}

\* ilp.solve(): the status is "infeasible" when no assignment satisfies the
\* constraints
Solve ==
    /\ pc = "built"
    /\ IF Solutions(ilp) = {}
       THEN pc' = "infeasible" /\ UNCHANGED solution
       ELSE pc' = "solved" /\ solution' \in Solutions(ilp)
    /\ UNCHANGED <<detections, error, graph, node_luts, args, recolored, ilp, new_graph>>
    /\ UNCHANGED linkVars

\* solved_graph = solution2graph(ilp, candidate_graph)
CallSolution2Graph ==
    /\ pc = "solved"
    /\ new_graph' = Solution2Graph(solution.x, graph)
    /\ pc' = "decoded"
    /\ UNCHANGED <<detections, error, graph, node_luts, args, solution, recolored, ilp>>
    /\ UNCHANGED linkVars

NextILP == CallGraph2ILP \/ Solve \/ CallSolution2Graph

SpecILP == InitILP /\ [][NextILP]_vars

----------------------------------------------------------------------------
(* recolor_detections(detections, graph, node_luts) (src/exercise3.py).  The
   state of the loops is st: the frames of out, n_tracks, the list
   color_lookup_tables, new_frame and color_lut of the running frame, and
   the exception that ended the call, if any. *)

\* slip: no edge is seen as an incoming edge
InEdges_None(g, n) == <<>>

\* graph.in_edges(node_id), in the order the edges were added
InEdges(g, n) == SelectSeq(g.edges, LAMBDA e : e.v = n)

\* slip: n_tracks is not incremented after a new track was started
RecolorRoot_NoIncrement(st, frame, det) ==
    [st EXCEPT !.new_frame = Paint(st.new_frame, frame, det, st.n_tracks),
               !.color_lut = DictSet(st.color_lut, det, st.n_tracks)]

\* the branch `if not edges` (lines 588-590): the detection starts a track
RecolorRoot(st, frame, det) ==
    [st EXCEPT !.new_frame = Paint(st.new_frame, frame, det, st.n_tracks),
               !.color_lut = DictSet(st.color_lut, det, st.n_tracks),
               !.n_tracks = st.n_tracks + 1]

RECURSIVE RecolorInherit(_, _, _, _, _, _)
\* for v_tm1, u_t0 in edges (lines 592-594), from the k-th edge on; t is the
\* 0-based frame index
RecolorInherit(st, es, k, g, frame, t) ==
    IF k > Len(es) \/ st.err.type # "none"
    THEN st
    ELSE IF t = 0 /\ st.color_lookup_tables = <<>>
    THEN [st EXCEPT !.err = Err("IndexError", "color_lookup_tables[t-1]", {t}, {})]
    ELSE IF ~g.nodes[es[k].u].has_attrs \/ ~g.nodes[es[k].v].has_attrs
    THEN [st EXCEPT !.err = Err("KeyError", "detection_id", {t}, {})]
    ELSE LET prev == st.color_lookup_tables[IF t = 0 THEN Len(st.color_lookup_tables) ELSE t]
             from == g.nodes[es[k].u].detection_id
             to   == g.nodes[es[k].v].detection_id
         IN  IF from \notin DOMAIN prev
             THEN [st EXCEPT !.err = Err("KeyError", "color_lookup_tables[t-1][...]", {t}, {from})]
             ELSE RecolorInherit(
                     [st EXCEPT !.new_frame = Paint(st.new_frame, frame, to, prev[from]),
                                !.color_lut = DictSet(st.color_lut, to, prev[from])],
                     es, k + 1, g, frame, t)

RECURSIVE RecolorItems(_, _, _, _, _, _, _)
\* for det_id, node_id in node_luts[t].items() (lines 583-594), from the
\* k-th item on
RecolorItems(st, items, k, lut, g, frame, t) ==
    IF k > Len(items) \/ st.err.type # "none"
    THEN st
    ELSE LET node_id == lut[items[k]]
         IN  IF node_id \notin DOMAIN g.nodes
             THEN RecolorItems(st, items, k + 1, lut, g, frame, t)
             ELSE IF InEdges(g, node_id) = <<>>
             THEN IF ~g.nodes[node_id].has_attrs
                  THEN [st EXCEPT !.err = Err("KeyError", "detection_id", {t}, {})]
                  ELSE RecolorItems(RecolorRoot(st, frame, g.nodes[node_id].detection_id),
                                    items, k + 1, lut, g, frame, t)
             ELSE RecolorItems(RecolorInherit(st, InEdges(g, node_id), 1, g, frame, t),
                               items, k + 1, lut, g, frame, t)

RECURSIVE RecolorFrames(_, _, _, _, _)
\* for t in range(0, len(detections)) (lines 580-597), from frame t on
RecolorFrames(st, t, dets, g, luts) ==
    IF t >= Len(dets) \/ st.err.type # "none"
    THEN st
    ELSE LET frame == dets[t + 1]
             st1 == RecolorItems(
                        [st EXCEPT !.new_frame = [p \in DOMAIN frame |-> 0],
                                   !.color_lut = EmptyDict],
                        SetToSeq(DOMAIN luts[t + 1]), 1, luts[t + 1], g, frame, t)
         IN  IF st1.err.type # "none"
             THEN st1
             ELSE RecolorFrames(
                     [st1 EXCEPT !.color_lookup_tables = Append(st1.color_lookup_tables, st1.color_lut),
                                 !.out = Append(st1.out, st1.new_frame)],
                     t + 1, dets, g, luts)

RecolorDetections(dets, g, luts) ==
    LET st0 == [out |-> <<>>, n_tracks |-> 1, color_lookup_tables |-> <<>>,
                new_frame |-> <<>>, color_lut |-> EmptyDict, err |-> NoError]
    IN  IF Len(dets) # Len(luts)
        THEN [st0 EXCEPT !.err = Err("AssertionError", "len(detections) == len(node_luts)", {}, {})]
        ELSE IF Len(dets) = 0
        THEN [st0 EXCEPT !.err = Err("ValueError", "need at least one array to stack", {}, {})]
        ELSE RecolorFrames(st0, 0, dets, g, luts)

\* recolor_detections(detections=detections, graph=..., node_luts=...)
\* called at position from; the call ends at position to or raises
CallRecolorAt(from, to) ==
    /\ pc = from
    /\ recolored' = RecolorDetections(detections, graph, node_luts)
    /\ IF recolored'.err.type # "none" THEN Raise(recolored'.err)
       ELSE pc' = to /\ UNCHANGED error
    /\ UNCHANGED <<detections, graph, node_luts, args, solution, ilp, new_graph>>

CallRecolor ==
    /\ CallRecolorAt("recolor", "done")
    /\ UNCHANGED linkVars

(* Inputs of recolor_detections: frames with up to MaxNodes detections in
   all (pixels in non-decreasing order: the function reads a frame through
   the masks detections[t] == id only), the lookup tables build_graph
   returns for them, and a pruned graph: some of the nodes of the candidate
   graph and up to MaxEdges of its edges between them, every detection pair
   of consecutive frames being a candidate. *)

SortedLabelFrames == {f \in LabelFrames : IsSortedSeq(f)}

DetectionSeqs(maxT, maxV) ==
    {ds \in UNION {[1 .. T -> SortedLabelFrames] : T \in 0 .. maxT} :
        SeqSum([t \in DOMAIN ds |-> Cardinality(Range(ds[t]) \ {0})]) <= maxV}

\* the graphs solution2graph can return: picked nodes and picked edges
SubGraph(g, S, R) ==
    LET es == PairSeq(R)
    IN  [nodes |-> [n \in S |-> g.nodes[n]],
         edges |-> [k \in DOMAIN es |-> [u |-> es[k][1], v |-> es[k][2]]]]

PrunedGraphs(g, maxE) ==
    UNION {{SubGraph(g, S, R) :
               R \in {Q \in SUBSET {<<g.edges[k].u, g.edges[k].v>> :
                                       k \in {j \in DOMAIN g.edges :
                                                 g.edges[j].u \in S /\ g.edges[j].v \in S}} :
                         Cardinality(Q) <= maxE}} :
           S \in SUBSET DOMAIN g.nodes}

InitRecolor ==
    /\ pc = "recolor"
    /\ detections \in DetectionSeqs(MaxFrames, MaxNodes)
    /\ node_luts = BuildGraph(detections, NPix, <<0, 0>>).luts
    /\ graph \in PrunedGraphs(BuildGraph(detections, NPix, <<0, 0>>).G, MaxEdges)
    /\ args = NoArgs
    /\ solution = NoSolution
    /\ recolored = NoResult
    /\ ilp = NoProblem
    /\ new_graph = EmptyGraph
    /\ i = 0
    /\ links = <<>>
    /\ linker = "NearestNeighborLinkerEuclidian"
    /\ threshold = FloatMax
    /\ error = NoError
    /\ n_cost = 0
    /\ n_matched = 0
    /\ cost_matrix = EmptyMatrix
    /\ li = NoLinks
    /\ ids = <<<<>>, <<>>>>
    /\ x = <<>>
    /\ out = <<>>
    /\ n_tracks = 0
    /\ lookup_tables = <<>>

SpecRecolor == InitRecolor /\ [][CallRecolor]_vars

(* relabel_detections and recolor_detections on the same tracks: the frames
   and linking dictionaries of InitRelabel, and the pruned graph that keeps
   every detection as a node, numbered as build_graph numbers them, and has
   one edge for every link. *)

GraphOfLinks(dets, lks) ==
    LET b == BuildGraph(dets, NPix, <<0, 0>>)
    IN  SubGraph(b.G, DOMAIN b.G.nodes,
                 UNION {{<<b.luts[t][lks[t].links[1][k]], b.luts[t + 1][lks[t].links[2][k]]>> :
                            k \in DOMAIN lks[t].links[1]} : t \in DOMAIN lks})

InitCompare ==
    /\ pc = "relabel"
    /\ detections \in UNION {[1 .. T -> ValidFrames] : T \in 1 .. MaxFrames}
    /\ links \in [1 .. Len(detections) - 1 -> AllResults(ValidFrames)]
    /\ \A t \in DOMAIN links : links[t] \in ResultsFor(detections[t], detections[t + 1])
    /\ graph = GraphOfLinks(detections, links)
    /\ node_luts = BuildGraph(detections, NPix, <<0, 0>>).luts
    /\ args = NoArgs
    /\ solution = NoSolution
    /\ recolored = NoResult
    /\ ilp = NoProblem
    /\ new_graph = EmptyGraph
    /\ i = 0
    /\ linker = "NearestNeighborLinkerEuclidian"
    /\ threshold = FloatMax
    /\ error = NoError
    /\ n_cost = 0
    /\ n_matched = 0
    /\ cost_matrix = EmptyMatrix
    /\ li = NoLinks
    /\ ids = <<<<>>, <<>>>>
    /\ x = <<>>
    /\ out = <<>>
    /\ n_tracks = 0
    /\ lookup_tables = <<>>

\* recolor_detections called after relabel_detections has returned
RecolorAfterRelabel ==
    /\ CallRecolorAt("done", "compared")
    /\ UNCHANGED linkVars

NextCompare == RelabelStart \/ RelabelIter \/ RelabelReturn \/ RecolorAfterRelabel

SpecCompare == InitCompare /\ [][NextCompare]_vars

----------------------------------------------------------------------------
(* The three functions that are handed the label arrays: link on the inputs
   of InitLink, relabel_detections and then recolor_detections on the
   inputs of InitCompare.  After link has returned recolor_detections can be
   called as well; no lookup table was built then. *)

InitFrameEffect == InitLink \/ InitCompare

NextFrameEffect == NextLink \/ NextCompare

SpecFrameEffect == InitFrameEffect /\ [][NextFrameEffect]_vars

----------------------------------------------------------------------------

(* extract_divisions(y, links) (src/exercise1.py).  y is the list of the
   frames of the ground truth, links the rows (track_id, from, to,
   parent_id) of the table of tracks. *)

\* np.zeros_like(y)
ZerosLike(y) == [t \in DOMAIN y |-> [p \in DOMAIN y[t] |-> 0]]

\* divisions = np.zeros_like(y); return divisions
ExtractDivisions(y, rows) == ZerosLike(y)

\* the arrays of test_extract_divisions
test_y == << <<0, 10, 0, 0>>, <<0, 11, 12, 13>>, <<0, 11, 12, 13>>, <<0, 11, 0, 13>> >>
test_links ==
    << [track_id |-> 11, from |-> 1, to |-> 2, parent_id |-> 10],
       [track_id |-> 12, from |-> 1, to |-> 3, parent_id |-> 10] >>
expected_divs == << <<0, 0, 0, 0>>, <<0, 11, 12, 0>>, <<0, 0, 0, 0>>, <<0, 0, 0, 0>> >>

\* largest number of frames of y and of rows of links drawn besides the test
MaxDivFrames == 2
MaxDivRows == 1

LinkRows(T) ==
    [track_id : 1 .. MaxLabel, from : 0 .. T - 1, to : 0 .. T - 1, parent_id : 0 .. MaxLabel]

InitExtractDivisions ==
    /\ pc = "extract_divisions"
    /\ \/ detections = test_y /\ links = test_links
       \/ /\ detections \in UNION {[1 .. T -> SortedLabelFrames] : T \in 1 .. MaxDivFrames}
          /\ links \in UNION {[1 .. n -> LinkRows(Len(detections))] : n \in 0 .. MaxDivRows}
    /\ GraphIdle
    /\ i = 0
    /\ linker = "NearestNeighborLinkerEuclidian"
    /\ threshold = FloatMax
    /\ error = NoError
    /\ n_cost = 0
    /\ n_matched = 0
    /\ cost_matrix = EmptyMatrix
    /\ li = NoLinks
    /\ ids = <<<<>>, <<>>>>
    /\ x = <<>>
    /\ out = <<>>
    /\ n_tracks = 0
    /\ lookup_tables = <<>>

\* divs = extract_divisions(y, links.to_numpy())
CallExtractDivisions ==
    /\ pc = "extract_divisions"
    /\ recolored' = [recolored EXCEPT !.out = ExtractDivisions(detections, links)]
    /\ pc' = "done"
    /\ UNCHANGED <<detections, error, graph, node_luts, args, solution, ilp, new_graph>>
    /\ UNCHANGED linkVars

SpecExtractDivisions == InitExtractDivisions /\ [][CallExtractDivisions]_vars

----------------------------------------------------------------------------
(* Vocabulary of the properties, stated independently of the operators above *)

\* the foreground labels of a frame
Foreground(f) == Range(f) \ {0}

\* a frame of the data model: non-negative, values exactly 0..k or 1..k
ContiguousFrame(f) ==
    /\ \A p \in DOMAIN f : f[p] >= 0
    /\ \E k \in 0 .. MaxLabel : Range(f) = 0 .. k \/ Range(f) = 1 .. k

\* the Linking Result invariant for one side: linked ids and unlinked ids
\* are disjoint and together are exactly the labels
Partitions(linked, unlinked, labels) ==
    /\ Range(linked) \cap Range(unlinked) = {}
    /\ Range(linked) \cup Range(unlinked) = labels

LinkingInvariant(l, f0, f1) ==
    /\ Partitions(l.links[1], l.deaths, Foreground(f0))
    /\ Partitions(l.links[2], l.births, Foreground(f1))

NNLinkers == {"NearestNeighborLinkerEuclidian", "NearestNeighborLinkerDriftCorrection"}

----------------------------------------------------------------------------
(* C1: every Linking Result that link() has accepted for a pair (t, t+1)
   partitions the labels: linked-from ids and deaths are disjoint and are
   together the foreground labels of frame t, linked-to ids and births are
   disjoint and are together the foreground labels of frame t+1. *)
C1_PartitionCompleteness ==
    \A t \in 1 .. Len(links) :
        LinkingInvariant(links[t], detections[t], detections[t + 1])

\* link() returned, and some pair was linked with a link and a death
C1_Witness ==
    /\ pc = "done"
    /\ \E t \in 1 .. Len(links) :
          /\ Len(links[t].links[1]) >= 1
          /\ Len(links[t].deaths) >= 1

----------------------------------------------------------------------------
(* C2: nearest_neighbor returns min(m, n) matches, no row and no column
   twice, each match the smallest entry among the rows and columns not
   matched before it; for test_matrix the rows are [2,0,1] and the columns
   [0,1,2]. *)
GreedyOrder(cm, r, c) ==
    /\ Len(r) = Len(c)
    /\ Len(r) = Min2(cm.shape[1], cm.shape[2])
    /\ \A k \in DOMAIN r :
          /\ r[k] \in 0 .. cm.shape[1] - 1
          /\ c[k] \in 0 .. cm.shape[2] - 1
          /\ \A j \in 1 .. k - 1 : r[j] # r[k] /\ c[j] # c[k]
          /\ \A rr \in 0 .. cm.shape[1] - 1, cc \in 0 .. cm.shape[2] - 1 :
                (\A j \in 1 .. k - 1 : r[j] # rr /\ c[j] # cc)
                    => cm.data[<<r[k], c[k]>>] <= cm.data[<<rr, cc>>]

C2_GreedyNearestNeighbor ==
    pc = "done" =>
        /\ GreedyOrder(cost_matrix, ids[1], ids[2])
        /\ cost_matrix = test_matrix => ids = <<<<2, 0, 1>>, <<0, 1, 2>>>>

----------------------------------------------------------------------------
(* C3: the nearest-neighbour _link_two_frames links a pair only if its cost
   does not exceed the threshold; when every entry exceeds the threshold
   all rows are deaths and all columns births. *)
C3_LinksWithinThreshold ==
    (pc = "done" /\ linker \in NNLinkers) =>
        /\ \A k \in DOMAIN li.links[1] :
              cost_matrix.data[<<li.links[1][k] - 1, li.links[2][k] - 1>>] <= threshold
        /\ (\A rc \in DOMAIN cost_matrix.data : cost_matrix.data[rc] > threshold)
              => /\ li.links = <<<<>>, <<>>>>
                 /\ Range(li.deaths) = 1 .. cost_matrix.shape[1]
                 /\ Range(li.births) = 1 .. cost_matrix.shape[2]

----------------------------------------------------------------------------
(* C4: the result of BipartiteMatchingLinker._link_two_frames costs no more
   (links + birth cost per birth + death cost per death) than any other
   1-to-1 partial matching without a link above the threshold. *)
PartialMatchings(cm) ==
    {M \in SUBSET ((1 .. cm.shape[1]) \X (1 .. cm.shape[2])) :
        \A p \in M, q \in M : p # q => p[1] # q[1] /\ p[2] # q[2]}

RECURSIVE SumCost(_, _)
SumCost(cm, M) ==
    IF M = {} THEN 0
    ELSE LET p == CHOOSE q \in M : TRUE
         IN  cm.data[<<p[1] - 1, p[2] - 1>>] + SumCost(cm, M \ {p})

\* total cost of a matching, in hundredths
TotalCost100(thr, cm, M) ==
    100 * SumCost(cm, M)
        + BirthCostFactor100 * Min2(thr, MatMax(cm)) * (cm.shape[2] - Cardinality(M))
        + DeathCostFactor100 * Min2(thr, MatMax(cm)) * (cm.shape[1] - Cardinality(M))

LinkedPairs(l) == {<<l.links[1][k], l.links[2][k]>> : k \in DOMAIN l.links[1]}

C4_BipartiteOptimal ==
    (pc = "done" /\ linker = "BipartiteMatchingLinker") =>
        \A M \in PartialMatchings(cost_matrix) :
            (\A p \in M : cost_matrix.data[<<p[1] - 1, p[2] - 1>>] <= threshold)
                => TotalCost100(threshold, cost_matrix, LinkedPairs(li))
                       <= TotalCost100(threshold, cost_matrix, M)

----------------------------------------------------------------------------
(* C5: for every linker, a pair of valid frames one of which has no
   detection is linked without an error and without a link: every label of
   the other frame is a birth (frame t empty) or a death (frame t+1 empty).
   Stated for frames that contain a background pixel. *)
EmptyFrame(f) == Foreground(f) = {}

C5_EmptyFrameGraceful ==
    \A t \in 1 .. Len(detections) - 1 :
        ( /\ ContiguousFrame(detections[t])
          /\ ContiguousFrame(detections[t + 1])
          /\ 0 \in Range(detections[t]) \cap Range(detections[t + 1])
          /\ EmptyFrame(detections[t]) \/ EmptyFrame(detections[t + 1]) )
        => /\ ~(pc = "raised" /\ i = t - 1)
           /\ t <= Len(links) =>
                 /\ links[t].links = <<<<>>, <<>>>>
                 /\ Range(links[t].births) = Foreground(detections[t + 1])
                 /\ Range(links[t].deaths) = Foreground(detections[t])

----------------------------------------------------------------------------
(* C6 as stated: if any frame of the sequence is invalid, link() raises
   before any cost matrix is computed and before any pair is matched. *)
SomeFrameInvalid == \E t \in DOMAIN detections : ~ContiguousFrame(detections[t])

BadPairs ==
    {j \in 0 .. Len(detections) - 2 :
        ~ContiguousFrame(detections[j + 1]) \/ ~ContiguousFrame(detections[j + 2])}

FirstBadPair == CHOOSE j \in BadPairs : \A k \in BadPairs : j <= k

RelabelError(e) ==
    e.type = "ValueError"
        /\ e.msg \in {"Negative ID in detections.", "Detection IDs are not contiguous."}

----------------------------------------------------------------------------
(* C7: _assert_relabeled accepts a frame exactly when all its values are
   non-negative and its set of values is {0..k} or {1..k} for some k, and
   raises ValueError otherwise. *)
C7_AssertRelabeledIff ==
    pc # "call" =>
        /\ (pc = "done") <=> ContiguousFrame(x)
        /\ (pc = "raised") <=> error.type = "ValueError"

\* a frame without background whose labels are exactly 1..2 is accepted
C7_Witness == pc = "done" /\ ArrMin(x) = 1 /\ ArrMax(x) = 2

----------------------------------------------------------------------------
(* C8: whenever _assert_links raises for a linking dictionary that violates
   the Linking Result invariant, the error names the index of the offending
   frame and the id(s) of the offending detection(s). *)
C8_ErrorNamesFrameAndIds ==
    (pc = "raised" /\ ~LinkingInvariant(li, detections[1], detections[2])) =>
        /\ error.frames # {}
        /\ error.frames \subseteq {i, i + 1}
        /\ error.ids # {}

----------------------------------------------------------------------------
(* C9: for a sequence of T valid frames link() returns T-1 linking
   dictionaries (none for T = 0 and T = 1), the t-th being the one that
   _link_two_frames computes from the cost matrix of the frames t, t+1.
   Stated for frames that contain a background pixel: once the call has
   ended it has returned, with one result per pair, in pair order. *)
ResultForPair(t) ==
    LinkTwoFrames(linker, threshold,
        LinkingCostFunction(linker, detections[t], detections[t + 1])).val

OneResultPerPairInOrder ==
    /\ Len(links) = Max2(0, Len(detections) - 1)
    /\ \A t \in 1 .. Len(links) : links[t] = ResultForPair(t)

C9_ReturnsOneResultPerPair ==
    ( /\ \A t \in DOMAIN detections :
            ContiguousFrame(detections[t]) /\ 0 \in Range(detections[t])
      /\ pc # "link" )
    => (pc = "done" /\ OneResultPerPairInOrder)

(* What does hold of C9: whenever link() returns, it returns one result per
   pair, in pair order. *)
C9_WhenLinkReturns == pc = "done" => OneResultPerPairInOrder

----------------------------------------------------------------------------
(* C10: relabel_detections keeps frame 0 as it is, and for every link
   (a in frame t -> b in frame t+1) every pixel labelled b in frame t+1 has,
   in the output, the track id that the pixels labelled a have in output
   frame t. *)
C10_LinkedLabelInheritsTrack ==
    /\ Len(out) >= 1 => out[1] = detections[1]
    /\ \A t \in 1 .. Len(out) - 1 :
          \A k \in DOMAIN links[t].links[1] :
              \A q \in DOMAIN detections[t], p \in DOMAIN detections[t + 1] :
                  ( /\ detections[t][q] = links[t].links[1][k]
                    /\ detections[t + 1][p] = links[t].links[2][k] )
                  => out[t + 1][p] = out[t][q]

\* a link has carried on a track id that differs from both labels it joins
C10_Witness ==
    /\ pc = "done"
    /\ \E t \in 1 .. Len(out) - 1 :
          \E k \in DOMAIN links[t].links[1] :
              \E p \in DOMAIN detections[t + 1] :
                  /\ detections[t + 1][p] = links[t].links[2][k]
                  /\ out[t + 1][p] # links[t].links[1][k]
                  /\ out[t + 1][p] # links[t].links[2][k]
                  /\ out[t + 1][p] # 0

----------------------------------------------------------------------------
(* Vocabulary of the track identifiers of relabel_detections, read from the
   state of the call: lookup_tables[t + 1] is the table of frame t (0-based)
   and links[t] the linking dictionary of the transition into frame t. *)

Values(lut) == {lut[k] : k \in DOMAIN lut}

\* births of the transition into frame t, and the deaths of the transition
\* out of it (none for the last frame)
BirthsInto(t) == Range(links[t].births)
DeathsOutOf(t) == IF t < Len(links) THEN Range(links[t + 1].deaths) ELSE {}
StartsTrack(t) == BirthsInto(t) \ DeathsOutOf(t)

\* identifiers allocated before the transition into frame t is processed
IdsBefore(t) ==
    (1 .. ArrMax(detections[1])) \cup UNION {Values(lookup_tables[s]) : s \in 1 .. t}

(* C11: relabel_detections allocates a new track identifier exactly for the
   births of transition t that are not in the death list of transition t+1
   (every birth of the last transition); a new identifier is greater than
   every identifier allocated before it, in the order of the birth list, and
   no identifier is allocated twice. *)
C11_FreshIdPerStartedTrack ==
    /\ \A t \in 1 .. Len(lookup_tables) - 1 :
          LET lut == lookup_tables[t + 1]
              births == links[t].births
          IN  /\ \A b \in BirthsInto(t) : b \in DOMAIN lut <=> b \in StartsTrack(t)
              /\ \A b \in StartsTrack(t) : \A v \in IdsBefore(t) : lut[b] > v
              /\ \A j, k \in DOMAIN births :
                    (j < k /\ births[j] \in StartsTrack(t) /\ births[k] \in StartsTrack(t))
                    => lut[births[j]] < lut[births[k]]
              /\ \A l \in DOMAIN lut \ BirthsInto(t) : lut[l] \in IdsBefore(t)
    /\ Len(lookup_tables) >= 1 =>
          /\ IdsBefore(Len(lookup_tables)) = 1 .. n_tracks
          /\ n_tracks = ArrMax(detections[1])
                + Cardinality({<<t, b>> \in (1 .. Len(lookup_tables) - 1) \X (1 .. MaxLabel) :
                                  b \in StartsTrack(t)})

\* the call returned after it started a track for one birth and skipped a
\* birth that dies in the next transition
C11_Witness ==
    /\ pc = "done"
    /\ \E t \in DOMAIN links : StartsTrack(t) # {}
    /\ \E t \in DOMAIN links : BirthsInto(t) \cap DeathsOutOf(t) # {}

\* the detections (labels) of frame t that carry track identifier v
DetectionsOf(v, t) ==
    {detections[t][p] : p \in {q \in DOMAIN out[t] : out[t][q] = v}}
FramesOf(v) == {t \in DOMAIN out : DetectionsOf(v, t) # {}}
TrackIds == UNION {Range(out[t]) : t \in DOMAIN out} \ {0}

(* C12: for linking results that satisfy the invariant, in the output of
   relabel_detections a track identifier marks at most one detection per
   frame, the frames in which it occurs form one interval whose consecutive
   occurrences are joined by a link, and an identifier whose detection dies
   at transition t occurs in no frame after t. *)
C12_OneLineagePerTrack ==
    \A v \in TrackIds :
        /\ \A t \in FramesOf(v) : Cardinality(DetectionsOf(v, t)) = 1
        /\ \A s, t \in FramesOf(v) : \A u \in s .. t : u \in FramesOf(v)
        /\ \A t \in FramesOf(v) :
              t + 1 \in FramesOf(v) =>
                 \E a \in DetectionsOf(v, t), b \in DetectionsOf(v, t + 1) :
                     <<a, b>> \in LinkedPairs(links[t])
        /\ \A t \in FramesOf(v) :
              (t <= Len(links) /\ DetectionsOf(v, t) \cap Range(links[t].deaths) # {})
              => \A u \in FramesOf(v) : u <= t

\* the call returned, and a track that died at the first transition is
\* followed by a track that starts in the last frame
C12_Witness ==
    /\ pc = "done"
    /\ Len(out) = 3
    /\ \E v \in TrackIds : FramesOf(v) = {1}
    /\ \E v \in TrackIds : FramesOf(v) = {3}
    /\ \E v \in TrackIds : FramesOf(v) = {1, 2, 3}

----------------------------------------------------------------------------
\* the node of frame t (0-based) whose region is the k-th of the frame
NodesAt(t) == {n \in DOMAIN graph.nodes : graph.nodes[n].time = t}
HasEdge(u, v) == \E k \in DOMAIN graph.edges : graph.edges[k].u = u /\ graph.edges[k].v = v

\* ||c0 + drift - c1|| < max_distance for the detections of nodes u and v
CorrectedDistBelow(u, v) ==
    LET f0 == RelabelSequential(detections[graph.nodes[u].time + 1])
        f1 == RelabelSequential(detections[graph.nodes[v].time + 1])
        w  == EdgeWeight(Centroid(f0, graph.nodes[u].detection_id),
                         Centroid(f1, graph.nodes[v].detection_id),
                         args.drift, args.max_distance)
    IN  w.num_sq < w.den * w.den

(* C13: build_graph adds an edge from a detection of frame t to a detection
   of frame t+1 if and only if their drift-corrected centroid distance
   ||c0 + drift - c1|| is strictly less than max_distance. *)
C13_EdgeIffCorrectedDistanceBelow ==
    pc = "done" =>
        \A t \in 0 .. Len(detections) - 2 :
            \A u \in NodesAt(t), v \in NodesAt(t + 1) :
                HasEdge(u, v) <=> CorrectedDistBelow(u, v)

----------------------------------------------------------------------------
(* Vocabulary of the ILP solutions: what solution.x selects in the
   candidate graph and among the appear and death edges of the problem *)

NumEdges == Len(graph.edges)
NumNodes == Cardinality(DOMAIN graph.nodes)
Solved == pc \in {"solved", "decoded"}

SelectedNode(n) == solution.x[NumEdges + n + 1] = 1
SelectedEdge(k) == solution.x[k] = 1
SelectedFlow(j) == solution.x[NumEdges + NumNodes + j] = 1

\* selected candidate edges into and out of node n
SelectedInEdges(n) == {k \in DOMAIN graph.edges : graph.edges[k].v = n /\ SelectedEdge(k)}
SelectedOutEdges(n) == {k \in DOMAIN graph.edges : graph.edges[k].u = n /\ SelectedEdge(k)}
\* selected appear edges and death edges of node n
SelectedAppear(n) ==
    {j \in DOMAIN ilp.flow_edges :
        ilp.flow_edges[j].kind = "appear" /\ ilp.flow_edges[j].node = n /\ SelectedFlow(j)}
SelectedDeath(n) ==
    {j \in DOMAIN ilp.flow_edges :
        ilp.flow_edges[j].kind = "death" /\ ilp.flow_edges[j].node = n /\ SelectedFlow(j)}

(* C14: in every solution the solver returns for graph2ilp_flow and
   graph2ilp_nodiv, a selected node has as many selected incoming edges
   (its appear edge counted) as selected outgoing edges (its death edge
   counted). *)
C14_FlowConservation ==
    (Solved /\ solution.optimal
        /\ args.variant \in {"graph2ilp_flow", "graph2ilp_nodiv"})
    => \A n \in DOMAIN graph.nodes :
          SelectedNode(n) =>
             Cardinality(SelectedInEdges(n)) + Cardinality(SelectedAppear(n))
             = Cardinality(SelectedOutEdges(n)) + Cardinality(SelectedDeath(n))

(* C15: in every solution the solver returns for graph2ilp_div, no selected
   node has more than 2 selected outgoing candidate edges and none has more
   than 1 selected incoming candidate edge. *)
C15_DivisionBound ==
    (Solved /\ solution.optimal /\ args.variant = "graph2ilp_div")
    => \A n \in DOMAIN graph.nodes :
          SelectedNode(n) =>
             /\ Cardinality(SelectedOutEdges(n)) <= 2
             /\ Cardinality(SelectedInEdges(n)) <= 1

Built == pc \in {"built", "solved", "decoded", "infeasible"}

\* the flow edges of kind k of node n
FlowEdgesOf(k, n) ==
    {j \in DOMAIN ilp.flow_edges : ilp.flow_edges[j].kind = k /\ ilp.flow_edges[j].node = n}
FlowCost(j) == ilp.c[NumEdges + NumNodes + j]

\* the assignment that selects node n, its appear edge and its death edge only
OnlyNode(n) ==
    [c \in 1 .. ilp.n |->
        IF \/ c = NumEdges + n + 1
           \/ c \in {NumEdges + NumNodes + j : j \in FlowEdgesOf("appear", n)}
           \/ c \in {NumEdges + NumNodes + j : j \in FlowEdgesOf("death", n)}
        THEN 1 ELSE 0]

(* C16: in the problem built by graph2ilp_nodiv every candidate node has an
   appear edge of cost cost_appear and a death edge of cost cost_disappear,
   so that selecting one node together with its appear and its death edge is
   feasible, in whichever frame the node is. *)
C16_AppearAndDeathEdgeEverywhere ==
    (Built /\ args.variant = "graph2ilp_nodiv"
        /\ {"cost_appear", "cost_disappear"} \subseteq DOMAIN args.hyperparams)
    => \A n \in DOMAIN graph.nodes :
          /\ \E j \in FlowEdgesOf("appear", n) :
                FlowCost(j) = 100 * args.hyperparams.cost_appear
          /\ \E j \in FlowEdgesOf("death", n) :
                FlowCost(j) = 100 * args.hyperparams.cost_disappear
          /\ Satisfiable(ilp, OnlyNode(n))

\* the assignment that selects nothing
AllZero == [c \in 1 .. ilp.n |-> 0]

(* C17: for every candidate graph and every hyperparameter setting, the
   problem built by each of the three builders is feasible and bounded: the
   all-zero assignment satisfies every constraint and some feasible
   assignment has the least cost, so the status is never "infeasible". *)
C17_FeasibleAndBounded ==
    /\ pc # "infeasible"
    /\ Built =>
          /\ Satisfiable(ilp, AllZero)
          /\ pc = "built" => \E sol \in Solutions(ilp) : sol.optimal

\* the solver has returned the all-zero assignment of a problem with
\* constraints of all kinds, and it is not the optimum
C17_Witness ==
    /\ pc = "solved"
    /\ solution.x = AllZero
    /\ ~solution.optimal
    /\ NumEdges >= 2
    /\ args.variant = "graph2ilp_div"

----------------------------------------------------------------------------
(* Vocabulary of recolor_detections: the track identifier of a node of the
   pruned graph is the entry of its detection in the colour table of its
   frame *)

ColorOf(n) ==
    recolored.color_lookup_tables[graph.nodes[n].time + 1][graph.nodes[n].detection_id]
Roots == {n \in DOMAIN graph.nodes : InEdges(graph, n) = <<>>}
Predecessors(n) == {graph.edges[k].u : k \in {j \in DOMAIN graph.edges : graph.edges[j].v = n}}
\* the nodes of the pruned graph whose detection is label l of frame t (0-based)
NodesOfDetection(t, l) ==
    {n \in DOMAIN graph.nodes : graph.nodes[n].time = t /\ graph.nodes[n].detection_id = l}

(* C18: recolor_detections gives every node of the pruned graph that has no
   incoming edge a fresh track identifier (1, 2, 3, ... in processing
   order, none used twice), gives every node that has an incoming edge the
   identifier of its predecessor in the previous frame (both daughters of a
   division carry the identifier of the parent), and leaves the pixels of
   every detection whose node is not in the pruned graph at 0. *)
C18_RootsFreshOthersInherit ==
    (pc = "done" /\ recolored.out # <<>>) =>
        /\ \A n \in Roots : ColorOf(n) = 1 + Cardinality({m \in Roots : m < n})
        /\ \A n \in DOMAIN graph.nodes \ Roots :
              /\ \E m \in Predecessors(n) :
                    graph.nodes[m].time = graph.nodes[n].time - 1 /\ ColorOf(n) = ColorOf(m)
              /\ ColorOf(n) \in {ColorOf(m) : m \in Roots}
        /\ \A t \in DOMAIN detections : \A p \in DOMAIN detections[t] :
              recolored.out[t][p] =
                 IF NodesOfDetection(t - 1, detections[t][p]) = {} THEN 0
                 ELSE ColorOf(CHOOSE n \in NodesOfDetection(t - 1, detections[t][p]) : TRUE)

\* a division in the pruned graph and a detection that is not in the
\* pruned graph
C18_Witness ==
    /\ pc = "done"
    /\ \E n \in DOMAIN graph.nodes :
          Cardinality({k \in DOMAIN graph.edges : graph.edges[k].u = n}) = 2
    /\ \A t \in DOMAIN detections : ContiguousFrame(detections[t])
    /\ \E t \in DOMAIN detections : \E p \in DOMAIN detections[t] :
          /\ detections[t][p] \in DOMAIN node_luts[t]
          /\ node_luts[t][detections[t][p]] \notin DOMAIN graph.nodes
          /\ recolored.out[t][p] = 0

----------------------------------------------------------------------------
\* the pixels of the sequence, and those of the detections that are born in
\* one transition and die in the next
Pixels == {tp \in (DOMAIN detections) \X (1 .. NPix) : TRUE}
ShortLived(tp) ==
    /\ tp[1] >= 2
    /\ detections[tp[1]][tp[2]] \in BirthsInto(tp[1] - 1) \cap DeathsOutOf(tp[1] - 1)

\* arrays a and b are equal on the pixels of P up to a one-to-one renaming
\* of the track identifiers (0, the background, is no track identifier)
EqualUpToRenaming(a, b, P) ==
    /\ \A tp \in P : a[tp[1]][tp[2]] = 0 <=> b[tp[1]][tp[2]] = 0
    /\ \A tp \in P, sq \in P :
          a[tp[1]][tp[2]] = a[sq[1]][sq[2]] <=> b[tp[1]][tp[2]] = b[sq[1]][sq[2]]

(* C19: for a pruned graph that keeps every detection as a node and whose
   edges are exactly the links of a valid sequence of linking results,
   recolor_detections and relabel_detections return track arrays that are
   equal up to a one-to-one renaming of the track identifiers. *)
C19_RecolorEqualsRelabel ==
    pc = "compared" => EqualUpToRenaming(out, recolored.out, Pixels)

(* C19, amended: the two arrays are equal up to a one-to-one renaming of the
   track identifiers on every pixel except those of a detection that is a
   birth of transition t and a death of transition t+1; relabel_detections
   leaves these pixels 0, recolor_detections gives them a track identifier
   that no other detection carries. *)
C19_RecolorEqualsRelabelButShortLived ==
    pc = "compared" =>
        /\ EqualUpToRenaming(out, recolored.out, {tp \in Pixels : ~ShortLived(tp)})
        /\ \A tp \in Pixels :
              ShortLived(tp) =>
                 /\ out[tp[1]][tp[2]] = 0
                 /\ recolored.out[tp[1]][tp[2]] # 0
                 /\ \A sq \in Pixels :
                       recolored.out[sq[1]][sq[2]] = recolored.out[tp[1]][tp[2]]
                       => (sq[1] = tp[1]
                           /\ detections[sq[1]][sq[2]] = detections[tp[1]][tp[2]])

\* both calls returned for a sequence with a link, a track that starts
\* later, and a detection that is born and dies at once
C19_Witness ==
    /\ pc = "compared"
    /\ \E tp \in Pixels : ShortLived(tp)
    /\ \E tp \in Pixels : tp[1] >= 2 /\ ~ShortLived(tp) /\ out[tp[1]][tp[2]] > MaxLabel
    /\ \E t \in DOMAIN links : links[t].links[1] # <<>>

----------------------------------------------------------------------------
\* the array that carries, for every row with a parent, the track_id of the
\* daughter at her pixels in her first frame, and 0 everywhere else
DaughtersHighlighted(y, rows) ==
    [t \in DOMAIN y |->
        [p \in DOMAIN y[t] |->
            IF \E k \in DOMAIN rows :
                  /\ rows[k].parent_id # 0
                  /\ rows[k].from = t - 1
                  /\ rows[k].track_id = y[t][p]
            THEN y[t][p] ELSE 0]]

(* C20: extract_divisions(y, links) returns an array of the shape of y that
   carries, for every row of links with parent_id # 0, the daughter's
   track_id at the daughter's pixels in the daughter's first frame and is 0
   everywhere else; for the arrays of test_extract_divisions the result is
   expected_divs. *)
C20_DaughtersHighlighted ==
    pc = "done" =>
        /\ recolored.out = DaughtersHighlighted(detections, links)
        /\ (detections = test_y /\ links = test_links) => recolored.out = expected_divs

----------------------------------------------------------------------------
\* relabel_detections / recolor_detections have returned their array
RelabelReturned == pc \in {"done", "compared"} /\ lookup_tables # <<>>
RecolorReturned == pc = "compared"

\* a has one frame per input frame, each of the shape of the input frame,
\* and is 0 wherever the input frame is 0
ShapeAndBackgroundKept(a) ==
    /\ DOMAIN a = DOMAIN detections
    /\ \A t \in DOMAIN a :
          /\ DOMAIN a[t] = DOMAIN detections[t]
          /\ \A p \in DOMAIN a[t] : detections[t][p] = 0 => a[t][p] = 0

(* C21: no step of link, relabel_detections or recolor_detections changes
   the label arrays it was given; the array relabel_detections returns and
   the array recolor_detections returns have the shape of the input
   sequence and are 0 on every pixel that is background in the input. *)
C21_InputsKeptBackgroundKept ==
    /\ [][detections' = detections]_vars
    /\ [](RelabelReturned => ShapeAndBackgroundKept(out))
    /\ [](RecolorReturned => ShapeAndBackgroundKept(recolored.out))

\* both arrays were returned for frames with background and foreground, and
\* both carry a track on some pixel
C21_Witness ==
    /\ RelabelReturned
    /\ RecolorReturned
    /\ Len(detections) >= 2
    /\ \A t \in DOMAIN detections :
          0 \in Range(detections[t]) /\ Foreground(detections[t]) # {}
    /\ \A t \in DOMAIN detections :
          Foreground(out[t]) # {} /\ Foreground(recolored.out[t]) # {}

----------------------------------------------------------------------------
\* the ids of the two lists together are exactly the labels, each once
ExactlyOnce(linked, unlinked, labels) ==
    /\ Range(linked) \cup Range(unlinked) = labels
    /\ Len(linked) + Len(unlinked) = Cardinality(labels)

\* a well-formed Linking Result for the frames f0, f1
SatisfiesLinkingInvariant(l, f0, f1) ==
    /\ Len(l.links[1]) = Len(l.links[2])
    /\ ExactlyOnce(l.links[1], l.deaths, Foreground(f0))
    /\ ExactlyOnce(l.links[2], l.births, Foreground(f1))

(* C22: for two frames that _assert_relabeled accepts, with or without a
   background pixel, _assert_links raises if and only if the result violates
   the Linking Result invariant: it returns for every result whose
   linked-from ids and deaths are exactly the foreground labels of the first
   frame, each once, and whose linked-to ids and births are exactly the
   foreground labels of the second frame, each once. *)
C22_RaisesIffInvariantViolated ==
    pc # "call" =>
        ((pc = "raised") <=> ~SatisfiesLinkingInvariant(li, detections[1], detections[2]))

----------------------------------------------------------------------------
\* the nodes of the candidate graph the solution selects
SelectedNodes == {n \in DOMAIN graph.nodes : SelectedNode(n)}

(* C23: in every feasible solution of the three builders a selected
   candidate edge has both of its endpoints selected, and the graph
   solution2graph decodes from it has the selected nodes as its nodes, so
   none of its edges has an endpoint that is not a selected node of the
   candidate graph. *)
C23_SelectedEdgeHasSelectedEndpoints ==
    /\ Solved =>
          \A k \in DOMAIN graph.edges :
             SelectedEdge(k) =>
                SelectedNode(graph.edges[k].u) /\ SelectedNode(graph.edges[k].v)
    /\ pc = "decoded" =>
          /\ DOMAIN new_graph.nodes = SelectedNodes
          /\ \A n \in DOMAIN new_graph.nodes : new_graph.nodes[n] = graph.nodes[n]
          /\ \A k \in DOMAIN new_graph.edges :
                {new_graph.edges[k].u, new_graph.edges[k].v} \subseteq SelectedNodes

\* a solution that selects some but not all candidate edges and nodes has
\* been decoded
C23_Witness ==
    /\ pc = "decoded"
    /\ Len(new_graph.edges) >= 1
    /\ Len(new_graph.edges) < NumEdges
    /\ SelectedNodes # DOMAIN graph.nodes
    /\ \E k \in DOMAIN graph.edges :
          ~SelectedEdge(k) /\ ~SelectedNode(graph.edges[k].v)

----------------------------------------------------------------------------
\* the number of selected edges incident to node n: candidate edges into
\* and out of it, its appear edges and its death edges
SelectedIncident(n) ==
    Cardinality(SelectedInEdges(n)) + Cardinality(SelectedOutEdges(n))
    + Cardinality(SelectedAppear(n)) + Cardinality(SelectedDeath(n))

(* C24: in every feasible solution of graph2ilp_flow and graph2ilp_nodiv a
   node is selected if and only if exactly two of its incident edges are
   selected, and an unselected node has no selected incident edge. *)
C24_SelectedIffTwoIncidentEdges ==
    (Solved /\ args.variant \in {"graph2ilp_flow", "graph2ilp_nodiv"})
    => \A n \in DOMAIN graph.nodes :
          /\ SelectedNode(n) <=> SelectedIncident(n) = 2
          /\ ~SelectedNode(n) => SelectedIncident(n) = 0

\* a track through three frames is selected next to a node that is not: the
\* first node has its appear edge and one outgoing edge, the middle node one
\* incoming and one outgoing edge, the last node its death edge
C24_Witness ==
    /\ pc = "solved"
    /\ args.variant = "graph2ilp_flow"
    /\ \E n \in DOMAIN graph.nodes :
          /\ SelectedNode(n)
          /\ Cardinality(SelectedInEdges(n)) = 1
          /\ Cardinality(SelectedOutEdges(n)) = 1
    /\ \E n \in DOMAIN graph.nodes :
          SelectedNode(n) /\ Cardinality(SelectedAppear(n)) = 1
    /\ \E n \in DOMAIN graph.nodes :
          SelectedNode(n) /\ Cardinality(SelectedDeath(n)) = 1
    /\ \E n \in DOMAIN graph.nodes :
          ~SelectedNode(n) /\ \E k \in DOMAIN graph.edges : graph.edges[k].v = n

----------------------------------------------------------------------------
(* C25: in the problem built by graph2ilp_flow a node has an appear edge if
   and only if its time is 0 and a death edge if and only if its time is
   the last frame index T-1, for every sequence length T >= 1; the nodes of
   a one-frame sequence have both. *)
C25_AppearAtFirstDeathAtLast ==
    (Built /\ args.variant = "graph2ilp_flow")
    => \A n \in DOMAIN graph.nodes :
          /\ FlowEdgesOf("appear", n) # {} <=> graph.nodes[n].time = 0
          /\ FlowEdgesOf("death", n) # {} <=> graph.nodes[n].time = args.n_frames - 1

----------------------------------------------------------------------------
(* C26: every edge of the graph build_graph returns goes from a node of
   some frame t to a node of frame t+1, no two edges join the same pair of
   nodes, and the edge_id values of the edges are pairwise distinct. *)
C26_EdgesToNextFrameDistinctIds ==
    pc = "done" =>
        /\ \A k \in DOMAIN graph.edges :
              /\ graph.edges[k].u \in DOMAIN graph.nodes
              /\ graph.edges[k].v \in DOMAIN graph.nodes
              /\ graph.nodes[graph.edges[k].v].time = graph.nodes[graph.edges[k].u].time + 1
        /\ \A j \in DOMAIN graph.edges, k \in DOMAIN graph.edges :
              j # k =>
                 /\ graph.edges[j].edge_id # graph.edges[k].edge_id
                 /\ <<graph.edges[j].u, graph.edges[j].v>> # <<graph.edges[k].u, graph.edges[k].v>>

\* three frames with two detections in the first: both transitions have an
\* edge, although nodes of one frame and nodes two frames apart are within
\* max_distance of each other
C26_Witness ==
    /\ pc = "done"
    /\ Len(detections) = 3
    /\ Cardinality(NodesAt(0)) = 2
    /\ \E j \in DOMAIN graph.edges, k \in DOMAIN graph.edges :
          /\ graph.nodes[graph.edges[j].u].time = 0
          /\ graph.nodes[graph.edges[k].u].time = 1
    /\ detections[1] = detections[3]

----------------------------------------------------------------------------
\* no_link > v for a cost v >= 0 in hundredths: base * factor > v
NoLinkAbove(no_link, v) == no_link.base > v \div no_link.factor

(* C27: in BipartiteMatchingLinker._link_two_frames, for every non-empty
   cost matrix with non-negative entries, no_link is strictly greater than
   every entry of the cost matrix, than b, than d, and than the sum of the
   real costs of any one assignment. *)
C27_NoLinkAboveEveryRealCost ==
    (pc = "done" /\ linker = "BipartiteMatchingLinker" /\ MatSize(cost_matrix) > 0) =>
        LET no_link == NoLink100(threshold, cost_matrix)
        IN  /\ \A v \in MatEntries(cost_matrix) : NoLinkAbove(no_link, 100 * v)
            /\ NoLinkAbove(no_link, BirthCost100(threshold, cost_matrix))
            /\ NoLinkAbove(no_link, DeathCost100(threshold, cost_matrix))
            /\ \A M \in PartialMatchings(cost_matrix) :
                  NoLinkAbove(no_link, TotalCost100(threshold, cost_matrix, M))

----------------------------------------------------------------------------
\* the detections of the frame reached by transition t that are born by it
\* and die at the next transition
BornAndDying(t) == BirthsInto(t) \cap DeathsOutOf(t)

(* C28: in the output of relabel_detections a detection of an interior
   frame that is a birth of the transition into the frame and a death of
   the transition out of it has no track identifier, all of its pixels are
   0; every detection of frame 0 and every detection of the last frame has
   a non-zero identifier on all of its pixels. *)
C28_BornAndDyingIsBackground ==
    pc = "done" =>
        /\ \A t \in 1 .. Len(links) - 1 :
              \A l \in BornAndDying(t) :
                 /\ l \notin DOMAIN lookup_tables[t + 1]
                 /\ \A p \in DOMAIN out[t + 1] :
                       detections[t + 1][p] = l => out[t + 1][p] = 0
        /\ \A t \in {1, Len(detections)} :
              \A p \in DOMAIN out[t] : detections[t][p] # 0 => out[t][p] # 0

\* three frames: a detection of the middle frame is born and dies, the last
\* frame has a born and a linked detection
C28_Witness ==
    /\ pc = "done"
    /\ Len(detections) = 3
    /\ BornAndDying(1) # {}
    /\ Foreground(detections[1]) # {}
    /\ BirthsInto(2) # {}
    /\ Len(links[2].links[1]) >= 1

----------------------------------------------------------------------------
(* C29: for frames that _assert_relabeled accepts and linking results that
   satisfy the Linking Result invariant for every transition,
   relabel_detections raises no error: every linked-from id of a transition
   has an entry in the lookup table of the frame it starts from, because a
   birth that was given no identifier is a death of the next transition and
   is never a link source. *)
C29_NoMissingLookup ==
    /\ pc # "raised"
    /\ error.type = "none"
    /\ \A t \in DOMAIN lookup_tables :
          t <= Len(links) => Range(links[t].links[1]) \subseteq DOMAIN lookup_tables[t]
    /\ \A t \in 1 .. Len(links) - 1 :
          BornAndDying(t) \cap Range(links[t + 1].links[1]) = {}

\* the call returned after it looked up a detection in the table of the
\* middle frame, in which another detection had been given no identifier
C29_Witness ==
    /\ pc = "done"
    /\ Len(detections) = 3
    /\ BornAndDying(1) # {}
    /\ Range(links[2].links[1]) # {}
    /\ Range(links[1].links[1]) # {}

----------------------------------------------------------------------------
\* the region of label l in frame t (1-based): the pixels that carry it
Region(t, l) == {p \in DOMAIN detections[t] : detections[t][p] = l}

(* C30: the lookup tables build_graph returns are keyed by the labels of
   the input frames: for every frame t and every foreground label l of
   detections[t], luts[t][l] is a node of time t and detection_id l,
   distinct (t, l) map to distinct nodes, and the node ids are 0..V-1, so
   that the mask detections[t] == detection_id that recolor_detections
   paints for a node is the region of the detection the node stands for. *)
C30_LutsKeyedByInputLabels ==
    pc = "done" =>
        /\ Len(node_luts) = Len(detections)
        /\ \A t \in DOMAIN detections :
              /\ DOMAIN node_luts[t] = Foreground(detections[t])
              /\ \A l \in Foreground(detections[t]) :
                    /\ node_luts[t][l] \in DOMAIN graph.nodes
                    /\ graph.nodes[node_luts[t][l]].time = t - 1
                    /\ graph.nodes[node_luts[t][l]].detection_id = l
        /\ \A s \in DOMAIN detections, t \in DOMAIN detections :
              \A k \in Foreground(detections[s]), l \in Foreground(detections[t]) :
                 <<s, k>> # <<t, l>> => node_luts[s][k] # node_luts[t][l]
        /\ DOMAIN graph.nodes
              = 0 .. SeqSum([t \in DOMAIN detections |->
                                Cardinality(Foreground(detections[t]))]) - 1
        /\ \A n \in DOMAIN graph.nodes :
              Region(graph.nodes[n].time + 1, graph.nodes[n].detection_id) # {}

====
